---- MODULE Spec2Model ----
(***************************************************************************)
(* The spec-to-grns apply/resume engine of pi-extensions/spec-to-grns.ts.  *)
(*                                                                         *)
(* One checkpoint file is followed through its life: the /spec-to-grns     *)
(* handler applies the plan of the spec document (ensureGrnswHealthy, then *)
(* applyPlan), and the /spec-to-grns-resume handler resumes the checkpoint *)
(* file that apply left (loadApplyCheckpoint, parseSpecFile,               *)
(* assertCheckpointMatchesPlan, ensureGrnswHealthy, resumePlan).  Between  *)
(* runs the spec document may be edited.                                   *)
(*                                                                         *)
(* Every await of runGrnswJson and every checkpoint write is one step, so  *)
(* the states between an external call and the write that records it are   *)
(* states of the model.  The external tool answers each call with a fresh  *)
(* id, with a failure, or with a payload that lacks created_id; every      *)
(* write of the checkpoint file succeeds or fails.                         *)
(*                                                                         *)
(* Titles are numbers (phase i is titled i, its milestone j is titled      *)
(* 10*i+j, an edited title is the negated number); ids are the positive    *)
(* numbers handed out by the external tool and 0 stands for undefined.     *)
(* createdAt/updatedAt are not modelled.                                   *)
(***************************************************************************)
EXTENDS Integers, Sequences, FiniteSets, TLC

VARIABLES
    specDoc,          \* the SpecPlan that parseSpecFile yields for the spec document
    pc,               \* position of the running handler ("idle" between runs)
    plan,             \* the plan argument of the current run
    args,             \* ParsedArgs of the apply run
    checkpoint,       \* the in-memory ApplyCheckpoint of the current run
    disk,             \* the content of the checkpoint file
    epicId,           \* local of applyPlan / resumePlan
    previousPhaseId,  \* local of applyPlan / resumePlan
    milestoneId,      \* local of applyPlan (milestone created, not yet pushed)
    validationId,     \* local of applyPlan
    phaseIndex,       \* loop position in plan.phases (1-based)
    milestoneIndex,   \* loop position in phase.milestones (1-based)
    calls,            \* every runGrnswJson call issued so far, in order
    nextId,           \* the next id the external tool hands out
    result,           \* what the last finished run returned or raised
    runs,             \* number of runs started (apply is run 1)
    saveFailures,     \* number of checkpoint writes that failed
    callFailures,     \* number of external calls that failed
    edits,            \* number of edits of the spec document
    atStart,          \* the spec document, the checkpoint file and the counters
                      \* as they were when the current run started
    env,              \* process.env: SPEC_REVIEWER and USER
    options,          \* RunGrnswOptions of the runGrnswJson call under study
    attempt,          \* attempt of the retry loop of runGrnswJson
    invocations,      \* what pi.exec did on each attempt so far
    response,         \* what runGrnswJson returned or threw
    dir,              \* the checkpoints directory: its entries in readdir order
    loadResult,       \* what loadApplyCheckpoint returned or threw for a file of dir
    entries,          \* what listApplyCheckpoints returned
    resolved,         \* what resolveResumeCheckpointPath returned or threw
    tokens,           \* splitShellArgs(rawArgs) of the /spec-to-grns command
    specFile,         \* the spec document: its path and its lines
    parsedPlan        \* what parseSpecFile returned for specFile

vars == <<specDoc, pc, plan, args, checkpoint, disk, epicId, previousPhaseId,
          milestoneId, validationId, phaseIndex, milestoneIndex, calls, nextId,
          result, runs, saveFailures, callFailures, edits, atStart,
          env, options, attempt, invocations, response,
          dir, loadResult, entries, resolved, tokens, specFile, parsedPlan>>

clientVars == <<options, attempt, invocations, response>>

storeVars == <<dir, loadResult, entries, resolved>>

----------------------------------------------------------------------------
(* Bounds *)

MaxRuns == 3
MaxDisturbances == 2

----------------------------------------------------------------------------
(* Values *)

NoId == 0
NoError == "undefined"
NoPlan == [specPath |-> "", epicTitle |-> "", phases |-> <<>>]
NoArgs == [withValidation |-> FALSE, reviewer |-> NoError, priority |-> 1]
NoResult == [kind |-> "none"]
NoEnv == [SPEC_REVIEWER |-> "undefined", USER |-> "undefined"]
NoOptions == [retries |-> 0, retryOnError |-> FALSE]
Pending == [kind |-> "pending"]
Undefined == "undefined"
NoSpecFile == [path |-> "", lines |-> <<>>]

(* String.prototype.trim on the strings of the model. *)
Trim(text) == IF text = " " THEN "" ELSE text

CheckpointPath == "checkpoint.json"
SpecPath == "/tmp/spec.md"
OtherSpecPath == "/tmp/other.md"
EpicTitle == "Epic"
OtherEpicTitle == "Epic v2"
DefaultPriority == 1

MilestonePlan(i, j) ==
    [title |-> 10 * i + j, acceptance |-> IF j % 2 = 1 THEN "- criteria" ELSE ""]

PhasePlan(i, n) ==
    [title |-> i, milestones |-> [j \in 1..n |-> MilestonePlan(i, j)]]

RECURSIVE SumSeq(_)
SumSeq(s) == IF s = <<>> THEN 0 ELSE Head(s) + SumSeq(Tail(s))

(* The shapes of the plans: the number of milestones of each phase. *)
Shapes == {<<>>, <<0>>, <<1>>, <<2>>, <<0, 0>>, <<1, 0>>, <<0, 1>>, <<1, 1>>, <<0, 0, 0>>}

SpecPlan(shape) ==
    [specPath |-> SpecPath, epicTitle |-> EpicTitle,
     phases |-> [i \in 1..Len(shape) |-> PhasePlan(i, shape[i])]]

SpecPlans == {SpecPlan(s) : s \in Shapes}

(* The documents one edit of the spec document can lead to. *)
EditedDocs(d) ==
    LET n == Len(d.phases) IN
    {[d EXCEPT !.epicTitle = OtherEpicTitle], [d EXCEPT !.specPath = OtherSpecPath]}
    \cup {[d EXCEPT !.phases[i].title = 0 - @] : i \in 1..n}
    \cup UNION {{[d EXCEPT !.phases[i].milestones[j].title = 0 - @] :
                    j \in 1..Len(d.phases[i].milestones)} : i \in 1..n}
    \cup {[d EXCEPT !.phases = SubSeq(@, 1, n - 1)] : k \in 1..(IF n > 0 THEN 1 ELSE 0)}
    \cup {[d EXCEPT !.phases[i].milestones = SubSeq(@, 1, Len(@) - 1)] :
            i \in {k \in 1..n : Len(d.phases[k].milestones) > 0}}
    \cup {[d EXCEPT !.phases = Append(@, PhasePlan(n + 1, 1))] : k \in {1}}
    \cup {[d EXCEPT !.phases[i].milestones = Append(@, MilestonePlan(i, Len(@) + 1))] :
            i \in 1..n}

CallOutcomes == {"ok", "error", "noid"}
DoctorOutcomes == {"ok", "error", "unhealthy"}

----------------------------------------------------------------------------
(* Checkpoint records and the recovery summary *)

NewCheckpoint(p, a, reviewer) ==
    [version |-> 1, status |-> "in-progress", specPath |-> p.specPath,
     epicTitle |-> p.epicTitle, priority |-> a.priority,
     withValidation |-> a.withValidation, reviewer |-> reviewer,
     applied |-> [epicId |-> NoId, phases |-> <<>>], error |-> NoError]

NoCheckpoint == NewCheckpoint(NoPlan, NoArgs, Undefined)

(* The checkpoint file does not exist. *)
NoFile == [NoCheckpoint EXCEPT !.status = "absent"]

Snapshot == [doc |-> specDoc, disk |-> disk, saveFailures |-> saveFailures,
             calls |-> Len(calls)]

ResolveReviewer(argsReviewer, envSpecReviewer, envUser) ==
    IF argsReviewer # Undefined THEN argsReviewer
    ELSE IF envSpecReviewer # Undefined THEN envSpecReviewer
    ELSE IF envUser # Undefined THEN envUser
    ELSE "reviewer"

countAppliedEntities(phases) ==
    [phaseCount |-> Len(phases),
     milestoneCount |-> SumSeq([i \in 1..Len(phases) |-> Len(phases[i].milestones)]),
     validationCount |->
        SumSeq([i \in 1..Len(phases) |->
                  Cardinality({j \in 1..Len(phases[i].milestones) :
                                  phases[i].milestones[j].validationId # NoId})])]

formatPartialApplyRecovery(cp, checkpointSaveFailed) ==
    [checkpointFile |-> CheckpointPath,
     epic |-> cp.applied.epicId,
     counts |-> countAppliedEntities(cp.applied.phases),
     duplicateWarning |-> TRUE,
     checkpointWriteFailed |-> checkpointSaveFailed]

toAppliedPlanFromCheckpoint(cp, p) ==
    [epicTitle |-> p.epicTitle, epicId |-> cp.applied.epicId,
     phases |-> cp.applied.phases, specPath |-> cp.specPath]

(* The ids a checkpoint records. *)
RecordedIds(cp) ==
    LET ph == cp.applied.phases IN
    ({cp.applied.epicId}
     \cup {ph[i].id : i \in 1..Len(ph)}
     \cup UNION {{ph[i].milestones[j].id : j \in 1..Len(ph[i].milestones)} :
                   i \in 1..Len(ph)}
     \cup UNION {{ph[i].milestones[j].validationId :
                     j \in 1..Len(ph[i].milestones)} : i \in 1..Len(ph)})
    \ {NoId}

----------------------------------------------------------------------------
(* One runGrnswJson call as the engine sees it, and readStringField *)

(* A call that leaves out the flag naming the parent (--epic, --phase,
   --milestone). *)
CallWithoutParent(cmd, title, parent, dependsOn, reviewer, acceptance, outcome) ==
    [cmd |-> cmd, title |-> title, parent |-> NoId, dependsOn |-> dependsOn,
     reviewer |-> reviewer, acceptance |-> acceptance,
     phase |-> phaseIndex, milestone |-> milestoneIndex,
     outcome |-> outcome, id |-> IF outcome = "ok" THEN nextId ELSE NoId,
     run |-> runs]

(* A resume's call that takes the reviewer of the checkpoint file as it was
   loaded. *)
CallWithLoadedReviewer(cmd, title, parent, dependsOn, reviewer, acceptance, outcome) ==
    [cmd |-> cmd, title |-> title, parent |-> parent, dependsOn |-> dependsOn,
     reviewer |-> IF runs >= 2 /\ cmd = "validation" THEN atStart.disk.reviewer ELSE reviewer,
     acceptance |-> acceptance,
     phase |-> phaseIndex, milestone |-> milestoneIndex,
     outcome |-> outcome, id |-> IF outcome = "ok" THEN nextId ELSE NoId,
     run |-> runs]

Call(cmd, title, parent, dependsOn, reviewer, acceptance, outcome) ==
    [cmd |-> cmd, title |-> title, parent |-> parent, dependsOn |-> dependsOn,
     reviewer |-> reviewer, acceptance |-> acceptance,
     phase |-> phaseIndex, milestone |-> milestoneIndex,
     outcome |-> outcome, id |-> IF outcome = "ok" THEN nextId ELSE NoId,
     run |-> runs]

Issue(call) ==
    /\ calls' = Append(calls, call)
    /\ nextId' = IF call.outcome = "ok" THEN nextId + 1 ELSE nextId
    /\ callFailures' = IF call.outcome = "ok" THEN callFailures ELSE callFailures + 1

FailureMessage(cmd, outcome) ==
    IF outcome = "error" THEN "grnsw failed"
    ELSE IF cmd = "epic" THEN "missing epic id from grnsw output"
    ELSE IF cmd = "phase" THEN "missing phase id"
    ELSE IF cmd = "milestone" THEN "missing milestone id"
    ELSE "missing validation id"

WriteFailedMessage == "failed to write apply checkpoint"

Fails(w) == IF w THEN 0 ELSE 1

CanFail(w1, w2) ==
    /\ saveFailures + callFailures + edits + Fails(w1) + Fails(w2) <= MaxDisturbances
    /\ w1 => w2

(* The inputs of a step that issues a call: the catch block's write matters
   only when the call fails. *)
CallInputs(o, w) ==
    /\ o = "ok" => w
    /\ saveFailures + callFailures + edits + Fails(o = "ok") + Fails(w) <= MaxDisturbances

----------------------------------------------------------------------------
(* trySaveApplyCheckpoint, saveApplyCheckpointOrThrow and the catch blocks *)

trySaveApplyCheckpoint(cp, w) == IF w THEN cp ELSE disk

(* A catch block that saves a checkpoint without the phases applied so far. *)
CatchDroppingProgress(cp, message, w, earlier) ==
    LET failed == [cp EXCEPT !.status = "failed", !.error = message,
                             !.applied.phases = <<>>] IN
    /\ checkpoint' = failed
    /\ disk' = trySaveApplyCheckpoint(failed, w)
    /\ result' = [kind |-> "thrown", message |-> message, run |-> runs,
                  recovery |-> formatPartialApplyRecovery(failed, ~w)]
    /\ saveFailures' = saveFailures + earlier + Fails(w)
    /\ pc' = "idle"

(* A catch block that saves a checkpoint without the epic id. *)
CatchDroppingEpic(cp, message, w, earlier) ==
    LET failed == [cp EXCEPT !.status = "failed", !.error = message,
                             !.applied.epicId = NoId] IN
    /\ checkpoint' = failed
    /\ disk' = trySaveApplyCheckpoint(failed, w)
    /\ result' = [kind |-> "thrown", message |-> message, run |-> runs,
                  recovery |-> formatPartialApplyRecovery(failed, ~w)]
    /\ saveFailures' = saveFailures + earlier + Fails(w)
    /\ pc' = "idle"

(* catch (error) of applyPlan and resumePlan: mark failed, best-effort save,
   raise the message with the recovery summary.  earlier is the number of
   writes that failed in this step before the catch block ran. *)
Catch(cp, message, w, earlier) ==
    LET failed == [cp EXCEPT !.status = "failed", !.error = message] IN
    /\ checkpoint' = failed
    /\ disk' = trySaveApplyCheckpoint(failed, w)
    /\ result' = [kind |-> "thrown", message |-> message, run |-> runs,
                  recovery |-> formatPartialApplyRecovery(failed, ~w)]
    /\ saveFailures' = saveFailures + earlier + Fails(w)
    /\ pc' = "idle"

(* A save inside the try block whose failure is counted and passed over. *)
SaveOrContinue(cp, w1, w2, next) ==
    /\ checkpoint' = cp
    /\ disk' = trySaveApplyCheckpoint(cp, w1)
    /\ pc' = next
    /\ saveFailures' = saveFailures + Fails(w1)
    /\ result' = result

(* saveApplyCheckpointOrThrow inside the try block: on success go on at next,
   on failure the catch block runs (its own save succeeding or not). *)
SaveOrCatch(cp, w1, w2, next) ==
    IF w1
    THEN /\ checkpoint' = cp
         /\ disk' = trySaveApplyCheckpoint(cp, TRUE)
         /\ pc' = next
         /\ UNCHANGED <<result, saveFailures>>
    ELSE Catch(cp, WriteFailedMessage, w2, 1)

(* The raw error of a step outside the try block: no recovery summary. *)
Raise(message) ==
    [kind |-> "thrown", message |-> message, run |-> runs, recovery |-> NoResult]

----------------------------------------------------------------------------
(* /spec-to-grns --apply: ensureGrnswHealthy, then applyPlan *)

loopVars == <<phaseIndex, milestoneIndex>>
idVars == <<epicId, previousPhaseId, milestoneId, validationId>>

(* The handler with the arguments parseArgs yields for --with-validation,
   --priority and --reviewer. *)
ApplyStartWith(withValidation, priority, reviewer) ==
    /\ pc = "idle"
    /\ runs = 0
    /\ plan' = specDoc
    /\ args' = [withValidation |-> withValidation, reviewer |-> reviewer,
                priority |-> priority]
    /\ runs' = 1
    /\ atStart' = Snapshot
    /\ pc' = "a_doctor"
    /\ UNCHANGED <<specDoc, checkpoint, disk, idVars, loopVars, calls, nextId, callFailures,
                   result, saveFailures, edits>>
    /\ UNCHANGED <<clientVars, storeVars, tokens, specFile, parsedPlan, env>>

ApplyStart(withValidation) ==
    ApplyStartWith(withValidation, DefaultPriority, Undefined)

(* ensureGrnswHealthy that goes on whatever doctor answers. *)
EnsureHealthyUnchecked(o, next) ==
    /\ saveFailures + callFailures + edits + Fails(o = "ok") <= MaxDisturbances
    /\ calls' = Append(calls, [Call("doctor", 0, NoId, NoId, "", "", o) EXCEPT !.id = NoId])
    /\ callFailures' = IF o = "ok" THEN callFailures ELSE callFailures + 1
    /\ pc' = next
    /\ result' = result

(* ensureGrnswHealthy without the test of data.ok: only a thrown call stops. *)
EnsureHealthyIgnoringOk(o, next) ==
    /\ saveFailures + callFailures + edits + Fails(o = "ok") <= MaxDisturbances
    /\ calls' = Append(calls, [Call("doctor", 0, NoId, NoId, "", "", o) EXCEPT !.id = NoId])
    /\ callFailures' = IF o = "ok" THEN callFailures ELSE callFailures + 1
    /\ IF o # "error"
       THEN pc' = next /\ result' = result
       ELSE /\ pc' = "idle"
            /\ result' = Raise("grnsw failed")

(* ensureGrnswHealthy: doctor must answer {ok: true}. *)
EnsureHealthy(o, next) ==
    /\ saveFailures + callFailures + edits + Fails(o = "ok") <= MaxDisturbances
    /\ calls' = Append(calls, [Call("doctor", 0, NoId, NoId, "", "", o) EXCEPT !.id = NoId])
    /\ callFailures' = IF o = "ok" THEN callFailures ELSE callFailures + 1
    /\ IF o = "ok"
       THEN pc' = next /\ result' = result
       ELSE /\ pc' = "idle"
            /\ result' = Raise(IF o = "error" THEN "grnsw failed" ELSE "grnsw doctor failed")

ApplyDoctor(o) ==
    /\ pc = "a_doctor"
    /\ EnsureHealthy(o, "a_begin")
    /\ UNCHANGED <<specDoc, plan, args, checkpoint, disk, idVars, loopVars, nextId,
                   runs, saveFailures, edits, atStart>>
    /\ UNCHANGED <<clientVars, storeVars, tokens, specFile, parsedPlan, env>>

(* applyPlan up to the first saveApplyCheckpointOrThrow, which is outside try. *)
(* applyPlan that allocates its checkpoint without writing it before the
   epic call. *)
ApplyBeginWithoutSave(w) ==
    /\ pc = "a_begin"
    /\ CanFail(w, TRUE)
    /\ LET cp == NewCheckpoint(plan, args,
                               ResolveReviewer(args.reviewer, env.SPEC_REVIEWER, env.USER)) IN
       /\ checkpoint' = cp
       /\ disk' = disk
       /\ saveFailures' = saveFailures + Fails(w)
       /\ IF w THEN pc' = "a_epic" /\ result' = result
               ELSE pc' = "idle" /\ result' = Raise(WriteFailedMessage)
    /\ UNCHANGED <<specDoc, plan, args, idVars, loopVars, calls, nextId, callFailures, runs, edits, atStart>>
    /\ UNCHANGED <<clientVars, storeVars, tokens, specFile, parsedPlan, env>>

ApplyBegin(w) ==
    /\ pc = "a_begin"
    /\ CanFail(w, TRUE)
    /\ LET cp == NewCheckpoint(plan, args,
                               ResolveReviewer(args.reviewer, env.SPEC_REVIEWER, env.USER)) IN
       /\ checkpoint' = cp
       /\ disk' = trySaveApplyCheckpoint(cp, w)
       /\ saveFailures' = saveFailures + Fails(w)
       /\ IF w THEN pc' = "a_epic" /\ result' = result
               ELSE pc' = "idle" /\ result' = Raise(WriteFailedMessage)
    /\ UNCHANGED <<specDoc, plan, args, idVars, loopVars, calls, nextId, callFailures, runs, edits, atStart>>
    /\ UNCHANGED <<clientVars, storeVars, tokens, specFile, parsedPlan, env>>

ApplyEpic(o, w) ==
    /\ pc = "a_epic"
    /\ CallInputs(o, w)
    /\ Issue(Call("epic", plan.epicTitle, NoId, NoId, "", "", o))
    /\ IF o = "ok"
       THEN /\ epicId' = nextId
            /\ checkpoint' = [checkpoint EXCEPT !.applied.epicId = nextId]
            /\ pc' = "a_epic_save"
            /\ UNCHANGED <<disk, result, saveFailures>>
       ELSE /\ Catch(checkpoint, FailureMessage("epic", o), w, 0)
            /\ UNCHANGED epicId
    /\ UNCHANGED <<specDoc, plan, args, previousPhaseId, milestoneId, validationId,
                   loopVars, runs, edits, atStart>>
    /\ UNCHANGED <<clientVars, storeVars, tokens, specFile, parsedPlan, env>>

ApplyEpicSave(w1, w2) ==
    /\ pc = "a_epic_save"
    /\ CanFail(w1, w2)
    /\ SaveOrCatch(checkpoint, w1, w2, "a_phase")
    /\ previousPhaseId' = NoId
    /\ phaseIndex' = 1
    /\ UNCHANGED <<specDoc, plan, args, epicId, milestoneId, validationId,
                   milestoneIndex, calls, nextId, callFailures, runs, edits, atStart>>
    /\ UNCHANGED <<clientVars, storeVars, tokens, specFile, parsedPlan, env>>

(* for (const phase of plan.phases): phase add, or leave the loop. *)
ApplyPhase(o, w) ==
    /\ pc = "a_phase"
    /\ CallInputs(o, w)
    /\ IF phaseIndex > Len(plan.phases)
       THEN /\ pc' = "a_final"
            /\ UNCHANGED <<checkpoint, disk, result, saveFailures, calls, nextId, callFailures>>
       ELSE LET phase == plan.phases[phaseIndex] IN
            /\ Issue(Call("phase", phase.title, epicId, previousPhaseId, "", "", o))
            /\ IF o = "ok"
               THEN /\ checkpoint' = [checkpoint EXCEPT !.applied.phases =
                          Append(@, [title |-> phase.title, id |-> nextId,
                                     dependsOn |-> previousPhaseId, milestones |-> <<>>])]
                    /\ pc' = "a_phase_save"
                    /\ UNCHANGED <<disk, result, saveFailures>>
               ELSE Catch(checkpoint, FailureMessage("phase", o), w, 0)
    /\ UNCHANGED <<specDoc, plan, args, idVars, loopVars, runs, edits, atStart>>
    /\ UNCHANGED <<clientVars, storeVars, tokens, specFile, parsedPlan, env>>

ApplyPhaseSave(w1, w2) ==
    /\ pc = "a_phase_save"
    /\ CanFail(w1, w2)
    /\ SaveOrCatch(checkpoint, w1, w2, "a_milestone")
    /\ milestoneIndex' = 1
    /\ UNCHANGED <<specDoc, plan, args, idVars, phaseIndex, calls, nextId, callFailures, runs, edits, atStart>>
    /\ UNCHANGED <<clientVars, storeVars, tokens, specFile, parsedPlan, env>>

(* for (const milestone of phase.milestones): milestone add, or end of the
   phase (previousPhaseId = phaseId). *)
ApplyMilestone(o, w) ==
    /\ pc = "a_milestone"
    /\ CallInputs(o, w)
    /\ LET phase == plan.phases[phaseIndex]
           phaseId == checkpoint.applied.phases[phaseIndex].id IN
       IF milestoneIndex > Len(phase.milestones)
       THEN /\ previousPhaseId' = phaseId
            /\ phaseIndex' = phaseIndex + 1
            /\ pc' = "a_phase"
            /\ UNCHANGED <<checkpoint, disk, result, saveFailures, calls, nextId, callFailures,
                           milestoneId, validationId>>
       ELSE LET milestone == phase.milestones[milestoneIndex] IN
            /\ Issue(Call("milestone", milestone.title, phaseId, NoId, "", "", o))
            /\ IF o = "ok"
               THEN /\ milestoneId' = nextId
                    /\ validationId' = NoId
                    /\ pc' = IF args.withValidation THEN "a_validation"
                                                     ELSE "a_milestone_save"
                    /\ UNCHANGED <<checkpoint, disk, result, saveFailures>>
               ELSE /\ Catch(checkpoint, FailureMessage("milestone", o), w, 0)
                    /\ UNCHANGED <<milestoneId, validationId>>
            /\ UNCHANGED <<previousPhaseId, phaseIndex>>
    /\ UNCHANGED <<specDoc, plan, args, epicId, milestoneIndex, runs, edits, atStart>>
    /\ UNCHANGED <<clientVars, storeVars, tokens, specFile, parsedPlan, env>>

ApplyValidation(o, w) ==
    /\ pc = "a_validation"
    /\ CallInputs(o, w)
    /\ LET milestone == plan.phases[phaseIndex].milestones[milestoneIndex] IN
       Issue(Call("validation", milestone.title, milestoneId, NoId,
                  checkpoint.reviewer, milestone.acceptance, o))
    /\ IF o = "ok"
       THEN /\ validationId' = nextId
            /\ pc' = "a_milestone_save"
            /\ UNCHANGED <<checkpoint, disk, result, saveFailures>>
       ELSE /\ Catch(checkpoint, FailureMessage("validation", o), w, 0)
            /\ UNCHANGED validationId
    /\ UNCHANGED <<specDoc, plan, args, epicId, previousPhaseId, milestoneId,
                   loopVars, runs, edits, atStart>>
    /\ UNCHANGED <<clientVars, storeVars, tokens, specFile, parsedPlan, env>>

(* A milestone loop that passes over the milestone after each one it records. *)
ApplyMilestoneSaveSkipping(w1, w2) ==
    /\ pc = "a_milestone_save"
    /\ CanFail(w1, w2)
    /\ LET milestone == plan.phases[phaseIndex].milestones[milestoneIndex]
           pushed == [checkpoint EXCEPT !.applied.phases[phaseIndex].milestones =
                         Append(@, [title |-> milestone.title, id |-> milestoneId,
                                    validationId |-> validationId])] IN
       SaveOrCatch(pushed, w1, w2, "a_milestone")
    /\ milestoneIndex' = milestoneIndex + 2
    /\ UNCHANGED <<specDoc, plan, args, idVars, phaseIndex, calls, nextId, callFailures, runs, edits, atStart>>
    /\ UNCHANGED <<clientVars, storeVars, tokens, specFile, parsedPlan, env>>

(* appliedPhase.milestones.push(...) and saveApplyCheckpointOrThrow. *)
ApplyMilestoneSave(w1, w2) ==
    /\ pc = "a_milestone_save"
    /\ CanFail(w1, w2)
    /\ LET milestone == plan.phases[phaseIndex].milestones[milestoneIndex]
           pushed == [checkpoint EXCEPT !.applied.phases[phaseIndex].milestones =
                         Append(@, [title |-> milestone.title, id |-> milestoneId,
                                    validationId |-> validationId])] IN
       SaveOrCatch(pushed, w1, w2, "a_milestone")
    /\ milestoneIndex' = milestoneIndex + 1
    /\ UNCHANGED <<specDoc, plan, args, idVars, phaseIndex, calls, nextId, callFailures, runs, edits, atStart>>
    /\ UNCHANGED <<clientVars, storeVars, tokens, specFile, parsedPlan, env>>

(* status = completed, best-effort save, return the AppliedPlan. *)
Finish(w) ==
    LET completed == [checkpoint EXCEPT !.status = "completed", !.error = NoError] IN
    /\ checkpoint' = completed
    /\ disk' = trySaveApplyCheckpoint(completed, w)
    /\ saveFailures' = saveFailures + Fails(w)
    /\ result' = [kind |-> "returned", run |-> runs,
                  applied |-> toAppliedPlanFromCheckpoint(completed, plan),
                  saveError |-> NoError]
    /\ pc' = "idle"

ApplyFinal(w) ==
    /\ pc = "a_final"
    /\ CanFail(w, TRUE)
    /\ Finish(w)
    /\ UNCHANGED <<specDoc, plan, args, idVars, loopVars, calls, nextId, callFailures, runs, edits, atStart>>
    /\ UNCHANGED <<clientVars, storeVars, tokens, specFile, parsedPlan, env>>


----------------------------------------------------------------------------
(* /spec-to-grns-resume: load, parse, assertCheckpointMatchesPlan,
   ensureGrnswHealthy, then resumePlan *)

(* readRequiredString taking every string, the empty one included. *)
readRequiredStringUnchecked(value) == [ok |-> value # Undefined, value |-> value]

(* readRequiredString: a string that is not blank, trimmed. *)
readRequiredString(value) ==
    IF Trim(value) # "" /\ value # Undefined
    THEN [ok |-> TRUE, value |-> Trim(value)]
    ELSE [ok |-> FALSE, value |-> Undefined]

Priorities == 0..4

(* loadApplyCheckpoint on a file that trySaveApplyCheckpoint wrote. *)
loadApplyCheckpoint(file) ==
    LET specPath == readRequiredString(file.specPath)
        epicTitle == readRequiredString(file.epicTitle)
        reviewer == readRequiredString(file.reviewer)
        ph == file.applied.phases
        Invalid(message) == [ok |-> FALSE, message |-> message, checkpoint |-> NoCheckpoint]
    IN
    IF file.version # 1 THEN Invalid("Unsupported checkpoint version")
    ELSE IF file.status \notin {"in-progress", "failed", "completed"}
    THEN Invalid("Invalid checkpoint status")
    ELSE IF ~specPath.ok THEN Invalid("Invalid checkpoint field 'specPath'")
    ELSE IF ~epicTitle.ok THEN Invalid("Invalid checkpoint field 'epicTitle'")
    ELSE IF ~reviewer.ok THEN Invalid("Invalid checkpoint field 'reviewer'")
    ELSE IF file.priority \notin Priorities THEN Invalid("Invalid checkpoint field 'priority'")
    ELSE IF \E i \in 1..Len(ph) : ph[i].id = NoId
    THEN Invalid("Invalid checkpoint field 'phases[i].id'")
    ELSE IF \E i \in 1..Len(ph) : \E j \in 1..Len(ph[i].milestones) : ph[i].milestones[j].id = NoId
    THEN Invalid("Invalid checkpoint field 'phases[i].milestones[j].id'")
    ELSE IF file.applied.epicId = NoId /\ Len(ph) > 0
    THEN Invalid("Checkpoint is inconsistent: phases exist but epic id is missing")
    ELSE [ok |-> TRUE, message |-> "",
          checkpoint |-> [file EXCEPT !.specPath = specPath.value,
                                      !.epicTitle = epicTitle.value,
                                      !.reviewer = reviewer.value]]

Matches == "matches"

(* assertCheckpointMatchesPlan without the comparison of milestone titles. *)
assertIgnoringMilestoneTitles(cp, p) ==
    LET ap == cp.applied.phases
        pp == p.phases
        shared == 1..(IF Len(ap) < Len(pp) THEN Len(ap) ELSE Len(pp))
        PhaseOk(i) ==
            /\ ap[i].title = pp[i].title
            /\ Len(ap[i].milestones) <= Len(pp[i].milestones)
    IN
    IF cp.specPath # p.specPath THEN "Checkpoint spec path mismatch"
    ELSE IF cp.epicTitle # p.epicTitle THEN "Checkpoint epic title mismatch"
    ELSE IF Len(ap) > Len(pp) THEN "Checkpoint has more phases than current spec plan"
    ELSE IF \E i \in shared : ~PhaseOk(i) THEN "Checkpoint phase mismatch"
    ELSE Matches

(* assertCheckpointMatchesPlan without the comparison of the epic title. *)
assertIgnoringEpicTitle(cp, p) ==
    LET ap == cp.applied.phases
        pp == p.phases
        shared == 1..(IF Len(ap) < Len(pp) THEN Len(ap) ELSE Len(pp))
        PhaseOk(i) ==
            /\ ap[i].title = pp[i].title
            /\ Len(ap[i].milestones) <= Len(pp[i].milestones)
            /\ \A j \in 1..Len(ap[i].milestones) :
                  ap[i].milestones[j].title = pp[i].milestones[j].title
    IN
    IF cp.specPath # p.specPath THEN "Checkpoint spec path mismatch"
    ELSE IF Len(ap) > Len(pp) THEN "Checkpoint has more phases than current spec plan"
    ELSE IF \E i \in shared : ~PhaseOk(i) THEN "Checkpoint phase mismatch"
    ELSE Matches

assertCheckpointMatchesPlan(cp, p) ==
    LET ap == cp.applied.phases
        pp == p.phases
        shared == 1..(IF Len(ap) < Len(pp) THEN Len(ap) ELSE Len(pp))
        PhaseOk(i) ==
            /\ ap[i].title = pp[i].title
            /\ Len(ap[i].milestones) <= Len(pp[i].milestones)
            /\ \A j \in 1..Len(ap[i].milestones) :
                  ap[i].milestones[j].title = pp[i].milestones[j].title
    IN
    IF cp.specPath # p.specPath THEN "Checkpoint spec path mismatch"
    ELSE IF cp.epicTitle # p.epicTitle THEN "Checkpoint epic title mismatch"
    ELSE IF Len(ap) > Len(pp) THEN "Checkpoint has more phases than current spec plan"
    ELSE IF \E i \in shared : ~PhaseOk(i)
    THEN LET i == CHOOSE k \in shared : ~PhaseOk(k) /\ \A l \in 1..(k - 1) : PhaseOk(l) IN
         IF ap[i].title # pp[i].title THEN "Checkpoint phase mismatch"
         ELSE IF Len(ap[i].milestones) > Len(pp[i].milestones)
         THEN "Checkpoint phase has more milestones than current spec"
         ELSE "Checkpoint milestone mismatch"
    ELSE IF Len(ap) > 0 /\ cp.applied.epicId = NoId
    THEN "Checkpoint is inconsistent: phases exist but epic id is missing"
    ELSE Matches

(* resumePlan creating the epic whatever the checkpoint records. *)
NeedsEpicAlways(cp) == TRUE

(* if (!epicId) of resumePlan *)
NeedsEpic(cp) == cp.applied.epicId = NoId

(* The validation test without !appliedMilestone.validationId. *)
NeedsValidationAlways(cp, appliedMilestone) == cp.withValidation

(* The validation test without checkpoint.withValidation. *)
NeedsValidationUnrequested(cp, appliedMilestone) == appliedMilestone.validationId = NoId

(* if (checkpoint.withValidation && !appliedMilestone.validationId) *)
(* A resume that takes every recorded milestone as validated. *)
NeedsValidationNever(cp, appliedMilestone) == FALSE

NeedsValidation(cp, appliedMilestone) ==
    cp.withValidation /\ appliedMilestone.validationId = NoId

(* previousPhaseId left as it was at the end of a phase. *)
PreviousPhaseIdStale(appliedPhase, previous) == previous

(* previousPhaseId = appliedPhase.id at the end of each phase of resumePlan *)
PreviousPhaseIdAfter(appliedPhase, previous) == appliedPhase.id

(* A completed test that never holds. *)
IsCompletedNever(cp) == FALSE

(* if (checkpoint.status === "completed") of the resume handler *)
IsCompleted(cp) == cp.status = "completed"

ReviewerArgs == {Undefined, "alice"}

ResumeStart(reviewerArg) ==
    /\ pc = "idle"
    /\ runs >= 1
    /\ runs < MaxRuns
    /\ disk # NoFile
    /\ runs' = runs + 1
    /\ atStart' = Snapshot
    /\ plan' = specDoc
    /\ LET load == loadApplyCheckpoint(disk)
           loaded == load.checkpoint
           verdict == assertCheckpointMatchesPlan(loaded, specDoc) IN
       IF ~load.ok
       THEN /\ checkpoint' = checkpoint
            /\ result' = [Raise(load.message) EXCEPT !.run = runs + 1]
            /\ pc' = "idle"
       ELSE IF verdict # Matches
       THEN /\ checkpoint' = loaded
            /\ result' = [Raise(verdict) EXCEPT !.run = runs + 1]
            /\ pc' = "idle"
       ELSE IF IsCompleted(loaded)
       THEN /\ checkpoint' = loaded
            /\ result' = [kind |-> "returned", run |-> runs + 1,
                          applied |-> toAppliedPlanFromCheckpoint(loaded, specDoc),
                          saveError |-> NoError]
            /\ pc' = "idle"
       ELSE /\ checkpoint' = [loaded EXCEPT !.reviewer =
                                 IF reviewerArg # Undefined THEN reviewerArg ELSE @]
            /\ result' = result
            /\ pc' = "r_doctor"
    /\ UNCHANGED <<specDoc, args, disk, idVars, loopVars, calls, nextId, callFailures,
                   saveFailures, edits>>
    /\ UNCHANGED <<clientVars, storeVars, tokens, specFile, parsedPlan, env>>

ResumeDoctor(o) ==
    /\ pc = "r_doctor"
    /\ EnsureHealthy(o, "r_begin")
    /\ UNCHANGED <<specDoc, plan, args, checkpoint, disk, idVars, loopVars, nextId,
                   runs, saveFailures, edits, atStart>>
    /\ UNCHANGED <<clientVars, storeVars, tokens, specFile, parsedPlan, env>>

(* resumePlan up to its first saveApplyCheckpointOrThrow, which is outside try. *)
(* resumePlan that resets the status and keeps the error of the last run. *)
ResumeBeginKeepingError(w) ==
    /\ pc = "r_begin"
    /\ CanFail(w, TRUE)
    /\ LET verdict == assertCheckpointMatchesPlan(checkpoint, plan)
           reset == [checkpoint EXCEPT !.status = "in-progress"] IN
       IF verdict # Matches
       THEN /\ w
            /\ result' = Raise(verdict)
            /\ pc' = "idle"
            /\ UNCHANGED <<checkpoint, disk, saveFailures>>
       ELSE /\ checkpoint' = reset
            /\ disk' = trySaveApplyCheckpoint(reset, w)
            /\ saveFailures' = saveFailures + Fails(w)
            /\ IF w THEN pc' = "r_epic" /\ result' = result
                    ELSE pc' = "idle" /\ result' = Raise(WriteFailedMessage)
    /\ UNCHANGED <<specDoc, plan, args, idVars, loopVars, calls, nextId, callFailures, runs, edits, atStart>>
    /\ UNCHANGED <<clientVars, storeVars, tokens, specFile, parsedPlan, env>>

ResumeBegin(w) ==
    /\ pc = "r_begin"
    /\ CanFail(w, TRUE)
    /\ LET verdict == assertCheckpointMatchesPlan(checkpoint, plan)
           reset == [checkpoint EXCEPT !.status = "in-progress", !.error = NoError] IN
       IF verdict # Matches
       THEN /\ w
            /\ result' = Raise(verdict)
            /\ pc' = "idle"
            /\ UNCHANGED <<checkpoint, disk, saveFailures>>
       ELSE /\ checkpoint' = reset
            /\ disk' = trySaveApplyCheckpoint(reset, w)
            /\ saveFailures' = saveFailures + Fails(w)
            /\ IF w THEN pc' = "r_epic" /\ result' = result
                    ELSE pc' = "idle" /\ result' = Raise(WriteFailedMessage)
    /\ UNCHANGED <<specDoc, plan, args, idVars, loopVars, calls, nextId, callFailures, runs, edits, atStart>>
    /\ UNCHANGED <<clientVars, storeVars, tokens, specFile, parsedPlan, env>>

ResumeEpic(o, w) ==
    /\ pc = "r_epic"
    /\ CallInputs(o, w)
    /\ IF NeedsEpic(checkpoint)
       THEN /\ Issue(Call("epic", plan.epicTitle, NoId, NoId, "", "", o))
            /\ IF o = "ok"
               THEN /\ epicId' = nextId
                    /\ checkpoint' = [checkpoint EXCEPT !.applied.epicId = nextId]
                    /\ pc' = "r_epic_save"
                    /\ UNCHANGED <<disk, result, saveFailures>>
               ELSE /\ Catch(checkpoint, FailureMessage("epic", o), w, 0)
                    /\ UNCHANGED epicId
            /\ UNCHANGED <<previousPhaseId, phaseIndex>>
       ELSE /\ o = "ok"
            /\ epicId' = checkpoint.applied.epicId
            /\ previousPhaseId' = NoId
            /\ phaseIndex' = 1
            /\ pc' = "r_phase"
            /\ UNCHANGED <<checkpoint, disk, result, saveFailures, calls, nextId, callFailures>>
    /\ UNCHANGED <<specDoc, plan, args, milestoneId, validationId, milestoneIndex,
                   runs, edits, atStart>>
    /\ UNCHANGED <<clientVars, storeVars, tokens, specFile, parsedPlan, env>>

ResumeEpicSave(w1, w2) ==
    /\ pc = "r_epic_save"
    /\ CanFail(w1, w2)
    /\ SaveOrCatch(checkpoint, w1, w2, "r_phase")
    /\ previousPhaseId' = NoId
    /\ phaseIndex' = 1
    /\ UNCHANGED <<specDoc, plan, args, epicId, milestoneId, validationId,
                   milestoneIndex, calls, nextId, callFailures, runs, edits, atStart>>
    /\ UNCHANGED <<clientVars, storeVars, tokens, specFile, parsedPlan, env>>

(* The phase loop of resumePlan: leave the loop, skip a recorded phase, or
   create the missing one. *)
ResumePhase(o, w) ==
    /\ pc = "r_phase"
    /\ CallInputs(o, w)
    /\ LET ap == checkpoint.applied.phases IN
       IF phaseIndex > Len(plan.phases)
       THEN /\ UNCHANGED <<calls, nextId, callFailures, milestoneIndex>>
            /\ IF Len(ap) > Len(plan.phases)
               THEN /\ o = "error"
                    /\ Catch(checkpoint, "checkpoint has extra phases not in current spec", w, 0)
               ELSE /\ o = "ok"
                    /\ pc' = "r_final"
                    /\ UNCHANGED <<checkpoint, disk, result, saveFailures>>
       ELSE LET planPhase == plan.phases[phaseIndex] IN
            IF phaseIndex <= Len(ap)
            THEN /\ UNCHANGED <<calls, nextId, callFailures>>
                 /\ IF ap[phaseIndex].title # planPhase.title
                    THEN /\ o = "error"
                         /\ Catch(checkpoint, "checkpoint mismatch at phase", w, 0)
                         /\ UNCHANGED milestoneIndex
                    ELSE /\ o = "ok"
                         /\ milestoneIndex' = 1
                         /\ pc' = "r_milestone"
                         /\ UNCHANGED <<checkpoint, disk, result, saveFailures>>
            ELSE /\ Issue(Call("phase", planPhase.title, epicId, previousPhaseId, "", "", o))
                 /\ UNCHANGED milestoneIndex
                 /\ IF o = "ok"
                    THEN /\ checkpoint' = [checkpoint EXCEPT !.applied.phases =
                               Append(@, [title |-> planPhase.title, id |-> nextId,
                                          dependsOn |-> previousPhaseId,
                                          milestones |-> <<>>])]
                         /\ pc' = "r_phase_save"
                         /\ UNCHANGED <<disk, result, saveFailures>>
                    ELSE Catch(checkpoint, FailureMessage("phase", o), w, 0)
    /\ UNCHANGED <<specDoc, plan, args, idVars, phaseIndex, runs, edits, atStart>>
    /\ UNCHANGED <<clientVars, storeVars, tokens, specFile, parsedPlan, env>>

ResumePhaseSave(w1, w2) ==
    /\ pc = "r_phase_save"
    /\ CanFail(w1, w2)
    /\ SaveOrCatch(checkpoint, w1, w2, "r_milestone")
    /\ milestoneIndex' = 1
    /\ UNCHANGED <<specDoc, plan, args, idVars, phaseIndex, calls, nextId, callFailures, runs, edits, atStart>>
    /\ UNCHANGED <<clientVars, storeVars, tokens, specFile, parsedPlan, env>>

(* The milestone loop of resumePlan: end of the phase, skip a recorded
   milestone, or create the missing one. *)
ResumeMilestone(o, w) ==
    /\ pc = "r_milestone"
    /\ CallInputs(o, w)
    /\ LET planPhase == plan.phases[phaseIndex]
           appliedPhase == checkpoint.applied.phases[phaseIndex]
           am == appliedPhase.milestones IN
       IF milestoneIndex > Len(planPhase.milestones)
       THEN /\ UNCHANGED <<calls, nextId, callFailures>>
            /\ IF Len(am) > Len(planPhase.milestones)
               THEN /\ o = "error"
                    /\ Catch(checkpoint, "checkpoint phase has extra milestones", w, 0)
                    /\ UNCHANGED <<previousPhaseId, phaseIndex>>
               ELSE /\ o = "ok"
                    /\ previousPhaseId' = PreviousPhaseIdAfter(appliedPhase, previousPhaseId)
                    /\ phaseIndex' = phaseIndex + 1
                    /\ pc' = "r_phase"
                    /\ UNCHANGED <<checkpoint, disk, result, saveFailures>>
       ELSE LET planMilestone == planPhase.milestones[milestoneIndex] IN
            /\ UNCHANGED <<previousPhaseId, phaseIndex>>
            /\ IF milestoneIndex <= Len(am)
               THEN /\ UNCHANGED <<calls, nextId, callFailures>>
                    /\ IF am[milestoneIndex].title # planMilestone.title
                       THEN /\ o = "error"
                            /\ Catch(checkpoint, "checkpoint mismatch in phase milestone", w, 0)
                       ELSE /\ o = "ok"
                            /\ pc' = "r_validation"
                            /\ UNCHANGED <<checkpoint, disk, result, saveFailures>>
               ELSE /\ Issue(Call("milestone", planMilestone.title, appliedPhase.id,
                                  NoId, "", "", o))
                    /\ IF o = "ok"
                       THEN /\ checkpoint' =
                                  [checkpoint EXCEPT !.applied.phases[phaseIndex].milestones =
                                      Append(@, [title |-> planMilestone.title,
                                                 id |-> nextId, validationId |-> NoId])]
                            /\ pc' = "r_milestone_save"
                            /\ UNCHANGED <<disk, result, saveFailures>>
                       ELSE Catch(checkpoint, FailureMessage("milestone", o), w, 0)
    /\ UNCHANGED <<specDoc, plan, args, epicId, milestoneId, validationId,
                   milestoneIndex, runs, edits, atStart>>
    /\ UNCHANGED <<clientVars, storeVars, tokens, specFile, parsedPlan, env>>

ResumeMilestoneSave(w1, w2) ==
    /\ pc = "r_milestone_save"
    /\ CanFail(w1, w2)
    /\ SaveOrCatch(checkpoint, w1, w2, "r_validation")
    /\ UNCHANGED <<specDoc, plan, args, idVars, loopVars, calls, nextId, callFailures, runs, edits, atStart>>
    /\ UNCHANGED <<clientVars, storeVars, tokens, specFile, parsedPlan, env>>

ResumeValidation(o, w) ==
    /\ pc = "r_validation"
    /\ CallInputs(o, w)
    /\ LET planMilestone == plan.phases[phaseIndex].milestones[milestoneIndex]
           appliedMilestone ==
               checkpoint.applied.phases[phaseIndex].milestones[milestoneIndex] IN
       IF NeedsValidation(checkpoint, appliedMilestone)
       THEN /\ Issue(Call("validation", planMilestone.title, appliedMilestone.id, NoId,
                          checkpoint.reviewer, planMilestone.acceptance, o))
            /\ UNCHANGED milestoneIndex
            /\ IF o = "ok"
               THEN /\ checkpoint' =
                          [checkpoint EXCEPT
                              !.applied.phases[phaseIndex].milestones[milestoneIndex]
                                  .validationId = nextId]
                    /\ pc' = "r_validation_save"
                    /\ UNCHANGED <<disk, result, saveFailures>>
               ELSE Catch(checkpoint, FailureMessage("validation", o), w, 0)
       ELSE /\ o = "ok"
            /\ milestoneIndex' = milestoneIndex + 1
            /\ pc' = "r_milestone"
            /\ UNCHANGED <<checkpoint, disk, result, saveFailures, calls, nextId, callFailures>>
    /\ UNCHANGED <<specDoc, plan, args, idVars, phaseIndex, runs, edits, atStart>>
    /\ UNCHANGED <<clientVars, storeVars, tokens, specFile, parsedPlan, env>>

ResumeValidationSave(w1, w2) ==
    /\ pc = "r_validation_save"
    /\ CanFail(w1, w2)
    /\ SaveOrCatch(checkpoint, w1, w2, "r_milestone")
    /\ milestoneIndex' = milestoneIndex + 1
    /\ UNCHANGED <<specDoc, plan, args, idVars, phaseIndex, calls, nextId, callFailures, runs, edits, atStart>>
    /\ UNCHANGED <<clientVars, storeVars, tokens, specFile, parsedPlan, env>>

ResumeFinal(w) ==
    /\ pc = "r_final"
    /\ CanFail(w, TRUE)
    /\ Finish(w)
    /\ UNCHANGED <<specDoc, plan, args, idVars, loopVars, calls, nextId, callFailures, runs, edits, atStart>>
    /\ UNCHANGED <<clientVars, storeVars, tokens, specFile, parsedPlan, env>>

----------------------------------------------------------------------------
(* The spec document is edited between two runs. *)

EditSpec(d) ==
    /\ pc = "idle"
    /\ runs >= 1
    /\ runs < MaxRuns
    /\ disk # NoFile
    /\ saveFailures + callFailures + edits < MaxDisturbances
    /\ d \in EditedDocs(specDoc)
    /\ specDoc' = d
    /\ edits' = edits + 1
    /\ UNCHANGED <<pc, plan, args, checkpoint, disk, idVars, loopVars, calls, nextId, callFailures,
                   result, runs, saveFailures, atStart>>
    /\ UNCHANGED <<clientVars, storeVars, tokens, specFile, parsedPlan, env>>

(* The checkpoint file is edited between two runs: its epic id is removed. *)
RemoveEpicId ==
    /\ pc = "idle"
    /\ runs >= 1
    /\ runs < MaxRuns
    /\ disk # NoFile
    /\ disk.applied.epicId # NoId
    /\ saveFailures + callFailures + edits < MaxDisturbances
    /\ disk' = [disk EXCEPT !.applied.epicId = NoId]
    /\ edits' = edits + 1
    /\ UNCHANGED <<specDoc, pc, plan, args, checkpoint, idVars, loopVars, calls, nextId,
                   callFailures, result, runs, saveFailures, atStart>>
    /\ UNCHANGED <<clientVars, storeVars, tokens, specFile, parsedPlan, env>>

----------------------------------------------------------------------------
(* runGrnswJson: one call of the external client, attempt by attempt.
   Texts are the few strings below; trim, toLowerCase, includes and
   JSON.parse are given by what they do to these strings. *)

MaxRetries == 2

TimeoutExitCode == 124

ObjectText == "{\"ok\": true}"

Stdouts == {"", " ", ObjectText, "[]", "null", "42", "oops", "Timed out"}
Stderrs == {"", "boom", "command timed out"}

ToLowerCase(text) ==
    IF text = "Timed out" THEN "timed out"
    ELSE IF text = "C.JSON" THEN "c.json"
    ELSE text

(* text.includes("timed out") || text.includes("timeout") *)
IncludesTimeout(text) == text \in {"timed out", "command timed out"}

(* JSON.parse with typeof and truthiness of the value it yields. *)
JSONParse(text) ==
    IF text = ObjectText THEN [ok |-> TRUE, typeof |-> "object", truthy |-> TRUE, value |-> "object"]
    ELSE IF text = "[]" THEN [ok |-> TRUE, typeof |-> "object", truthy |-> TRUE, value |-> "array"]
    ELSE IF text = "null" THEN [ok |-> TRUE, typeof |-> "object", truthy |-> FALSE, value |-> "null"]
    ELSE IF text = "42" THEN [ok |-> TRUE, typeof |-> "number", truthy |-> TRUE, value |-> "number"]
    ELSE [ok |-> FALSE, typeof |-> "undefined", truthy |-> FALSE, value |-> "undefined"]

ExecRaised == [raised |-> TRUE, code |-> 0, killed |-> FALSE, stdout |-> "", stderr |-> ""]

ExecResult(code, killed, stdout, stderr) ==
    [raised |-> FALSE, code |-> code, killed |-> killed, stdout |-> stdout, stderr |-> stderr]

(* What pi.exec can resolve to. *)
ExecResults ==
    {ExecResult(0, FALSE, out, "") : out \in Stdouts}
    \cup {ExecResult(0, TRUE, ObjectText, ""), ExecResult(0, FALSE, ObjectText, "command timed out")}
    \cup {ExecResult(1, FALSE, "", "boom"), ExecResult(1, FALSE, "oops", "")}
    \cup {ExecResult(1, TRUE, "", ""), ExecResult(TimeoutExitCode, FALSE, "", ""),
          ExecResult(1, FALSE, "", "command timed out"), ExecResult(1, FALSE, "Timed out", "")}

(* isLikelyTimeoutResult without the test of exit code 124. *)
isLikelyTimeoutWithoutExitCode(r) ==
    \/ r.killed
    \/ IncludesTimeout(ToLowerCase(r.stderr))
    \/ IncludesTimeout(ToLowerCase(r.stdout))

isLikelyTimeoutResult(r) ==
    \/ r.killed
    \/ r.code = TimeoutExitCode
    \/ IncludesTimeout(ToLowerCase(r.stderr))
    \/ IncludesTimeout(ToLowerCase(r.stdout))

(* A loop bound of one attempt more than retries + 1. *)
TotalAttemptsOneMore == options.retries + 2

TotalAttempts == options.retries + 1

(* shouldRetry without the condition on the kind of failure. *)
shouldRetryAnyFailure(timeoutError) == attempt < TotalAttempts

shouldRetry(timeoutError) ==
    attempt < TotalAttempts /\ (timeoutError \/ options.retryOnError)

Continue ==
    /\ attempt' = attempt + 1
    /\ response' = Pending

Return(value) ==
    /\ attempt' = attempt
    /\ response' = [kind |-> "returned", value |-> value, attempt |-> attempt]

Throw(message) ==
    /\ attempt' = attempt
    /\ response' = [kind |-> "thrown", message |-> message, attempt |-> attempt]

mainVars == <<specDoc, pc, plan, args, checkpoint, disk, epicId, previousPhaseId,
              milestoneId, validationId, phaseIndex, milestoneIndex, calls, nextId,
              result, runs, saveFailures, callFailures, edits, atStart, env>>

(* pi.exec throws: the process could not be launched. *)
ExecRaises ==
    /\ response = Pending
    /\ attempt <= TotalAttempts
    /\ invocations' = Append(invocations, ExecRaised)
    /\ IF attempt < TotalAttempts THEN Continue ELSE Throw("grnsw invocation failed")
    /\ UNCHANGED <<options, mainVars, storeVars, tokens, specFile, parsedPlan>>

(* pi.exec resolves to r: the rest of the loop body. *)
ExecReturns(r) ==
    /\ response = Pending
    /\ attempt <= TotalAttempts
    /\ invocations' = Append(invocations, r)
    /\ IF r.code # 0
       THEN LET timeoutError == isLikelyTimeoutResult(r) IN
            IF shouldRetry(timeoutError) THEN Continue
            ELSE Throw(IF timeoutError THEN "grnsw timed out" ELSE "grnsw failed")
       ELSE LET stdout == Trim(r.stdout)
                parsed == JSONParse(stdout) IN
            IF stdout = "" THEN Return("{}")
            ELSE IF parsed.ok /\ parsed.truthy /\ parsed.typeof = "object"
            THEN Return(parsed.value)
            ELSE Throw("invalid grnsw JSON output")
    /\ UNCHANGED <<options, mainVars, storeVars, tokens, specFile, parsedPlan>>

----------------------------------------------------------------------------
(* The checkpoint store: loadApplyCheckpoint on the text of a file,
   listApplyCheckpoints and resolveResumeCheckpointPath on a directory.
   A JSON value is its typeof with, for a scalar, its text; a number's text
   is the numeral of the value JSON.parse yields. *)

MaxMtime == 2

JString(text) == [type |-> "string", text |-> text]
JNumber(text) == [type |-> "number", text |-> text]
JBoolean(text) == [type |-> "boolean", text |-> text]
JNull == [type |-> "null", text |-> "null"]
JAbsent == [type |-> "undefined", text |-> ""]

(* Ten times the value of a numeral. *)
Tenths(text) ==
    IF text = "-1" THEN 0 - 10
    ELSE IF text = "0" THEN 0
    ELSE IF text = "1" THEN 10
    ELSE IF text = "1.5" THEN 15
    ELSE IF text = "2" THEN 20
    ELSE IF text = "3" THEN 30
    ELSE IF text = "4" THEN 40
    ELSE 50

(* The string of a JSON value, undefined when typeof value is not "string". *)
AsString(value) == IF value.type = "string" THEN value.text ELSE Undefined

(* typeof raw === "string" && raw.trim() ? raw.trim() : undefined *)
readOptionalString(value) ==
    IF value.type = "string" /\ Trim(value.text) # "" THEN Trim(value.text) ELSE Undefined

(* typeof value === "number" && Number.isInteger(value) && value >= 0 && value <= 4 *)
readRequiredPriority(value) ==
    IF value.type = "number" /\ Tenths(value.text) % 10 = 0
       /\ Tenths(value.text) >= 0 /\ Tenths(value.text) <= 40
    THEN [ok |-> TRUE, value |-> Tenths(value.text) \div 10]
    ELSE [ok |-> FALSE, value |-> 0]

readRequiredBoolean(value) ==
    IF value.type = "boolean"
    THEN [ok |-> TRUE, value |-> value.text = "true"]
    ELSE [ok |-> FALSE, value |-> FALSE]

(* !x || typeof x !== "object": null, a scalar or an absent key. *)
IsObject(type) == type \in {"object", "array"}

NoLoadedCheckpoint == [status |-> "none"]

Thrown(message) == [kind |-> "thrown", message |-> message, checkpoint |-> NoLoadedCheckpoint]

(* The milestones.map callback: the error of one milestone, "" when it has none. *)
MilestoneError(milestone) ==
    IF ~IsObject(milestone.type) THEN "Invalid checkpoint milestone"
    ELSE IF ~readRequiredString(AsString(milestone.title)).ok
    THEN "Invalid checkpoint field 'phases[i].milestones[j].title'"
    ELSE IF ~readRequiredString(AsString(milestone.id)).ok
    THEN "Invalid checkpoint field 'phases[i].milestones[j].id'"
    ELSE ""

(* The phases.map callback: the error of one phase, "" when it has none. *)
PhaseError(phase) ==
    LET bad == {j \in 1..Len(phase.milestones.items) :
                   MilestoneError(phase.milestones.items[j]) # ""} IN
    IF ~IsObject(phase.type) THEN "Invalid checkpoint phase"
    ELSE IF ~readRequiredString(AsString(phase.title)).ok
    THEN "Invalid checkpoint field 'phases[i].title'"
    ELSE IF ~readRequiredString(AsString(phase.id)).ok
    THEN "Invalid checkpoint field 'phases[i].id'"
    ELSE IF phase.milestones.type # "array" THEN "Invalid checkpoint milestones"
    ELSE IF bad # {}
    THEN MilestoneError(phase.milestones.items[CHOOSE j \in bad : \A k \in bad : j <= k])
    ELSE ""

LoadedMilestone(milestone) ==
    [title |-> readRequiredString(AsString(milestone.title)).value,
     id |-> readRequiredString(AsString(milestone.id)).value,
     validationId |-> readOptionalString(milestone.validationId)]

LoadedPhase(phase) ==
    [title |-> readRequiredString(AsString(phase.title)).value,
     id |-> readRequiredString(AsString(phase.id)).value,
     dependsOn |-> readOptionalString(phase.dependsOn),
     milestones |-> [j \in 1..Len(phase.milestones.items) |->
                        LoadedMilestone(phase.milestones.items[j])]]

(* loadApplyCheckpoint on the text of a file: JSON.parse, then field by field. *)
loadApplyCheckpointFile(raw) ==
    LET specPath == readRequiredString(AsString(raw.specPath))
        epicTitle == readRequiredString(AsString(raw.epicTitle))
        reviewer == readRequiredString(AsString(raw.reviewer))
        priority == readRequiredPriority(raw.priority)
        withValidation == readRequiredBoolean(raw.withValidation)
        createdAt == readRequiredString(AsString(raw.createdAt))
        updatedAt == readRequiredString(AsString(raw.updatedAt))
        appliedEpicId == readOptionalString(raw.applied.epicId)
        phasesRaw == raw.applied.phases
        bad == {i \in 1..Len(phasesRaw.items) : PhaseError(phasesRaw.items[i]) # ""}
    IN
    IF raw.json = "unparseable" THEN Thrown("Invalid checkpoint JSON")
    ELSE IF ~IsObject(raw.json) THEN Thrown("Invalid checkpoint payload: expected object")
    ELSE IF raw.version # JNumber("1") THEN Thrown("Unsupported checkpoint version")
    ELSE IF AsString(raw.status) \notin {"in-progress", "failed", "completed"}
    THEN Thrown("Invalid checkpoint status")
    ELSE IF ~specPath.ok THEN Thrown("Invalid checkpoint field 'specPath'")
    ELSE IF ~epicTitle.ok THEN Thrown("Invalid checkpoint field 'epicTitle'")
    ELSE IF ~reviewer.ok THEN Thrown("Invalid checkpoint field 'reviewer'")
    ELSE IF ~priority.ok THEN Thrown("Invalid checkpoint field 'priority'")
    ELSE IF ~withValidation.ok THEN Thrown("Invalid checkpoint field 'withValidation'")
    ELSE IF ~createdAt.ok THEN Thrown("Invalid checkpoint field 'createdAt'")
    ELSE IF ~updatedAt.ok THEN Thrown("Invalid checkpoint field 'updatedAt'")
    ELSE IF ~IsObject(raw.applied.type) THEN Thrown("Invalid checkpoint applied payload")
    ELSE IF phasesRaw.type # "array" THEN Thrown("Invalid checkpoint phases array")
    ELSE IF bad # {}
    THEN Thrown(PhaseError(phasesRaw.items[CHOOSE i \in bad : \A k \in bad : i <= k]))
    ELSE IF appliedEpicId = Undefined /\ Len(phasesRaw.items) > 0
    THEN Thrown("Checkpoint is inconsistent: phases exist but epic id is missing")
    ELSE [kind |-> "returned", message |-> "",
          checkpoint |->
              [version |-> 1, status |-> raw.status.text,
               createdAt |-> createdAt.value, updatedAt |-> updatedAt.value,
               specPath |-> specPath.value, epicTitle |-> epicTitle.value,
               priority |-> priority.value, withValidation |-> withValidation.value,
               reviewer |-> reviewer.value,
               applied |-> [epicId |-> appliedEpicId,
                            phases |-> [i \in 1..Len(phasesRaw.items) |->
                                           LoadedPhase(phasesRaw.items[i])]],
               error |-> readOptionalString(raw.error)]]

(* The files of the model. *)
Timestamp == "2026-01-01T00:00:00.000Z"

RawMilestone(title, id) ==
    [type |-> "object", title |-> title, id |-> id, validationId |-> JAbsent]

RawPhase(title, id, milestones) ==
    [type |-> "object", title |-> title, id |-> id, dependsOn |-> JAbsent,
     milestones |-> milestones]

JArray(items) == [type |-> "array", items |-> items]

GoodMilestone == RawMilestone(JString("M1"), JString("M-1"))
GoodPhase == RawPhase(JString("P1"), JString("P-1"), JArray(<<GoodMilestone>>))

(* What applied.phases[i].milestones can hold besides well-formed milestones. *)
BadMilestoneArrays ==
    {[type |-> "undefined", items |-> <<>>], [type |-> "object", items |-> <<>>]}
    \cup {JArray(<<GoodMilestone, m>>) :
            m \in {RawMilestone(JString(""), JString("M-2")),
                   RawMilestone(JAbsent, JString("M-2")),
                   RawMilestone(JString("M2"), JString("")),
                   RawMilestone(JString("M2"), JNumber("2")),
                   RawMilestone(JString("M2"), JAbsent),
                   [RawMilestone(JAbsent, JAbsent) EXCEPT !.type = "null"],
                   [RawMilestone(JAbsent, JAbsent) EXCEPT !.type = "string"]}}

(* What applied.phases can hold. *)
GoodPhaseArrays ==
    {JArray(<<>>), JArray(<<GoodPhase>>),
     JArray(<<GoodPhase, RawPhase(JString("P2"), JString("P-2"), JArray(<<>>))>>)}

BadPhaseArrays ==
    {[type |-> "undefined", items |-> <<>>], [type |-> "object", items |-> <<>>],
     [type |-> "null", items |-> <<>>]}
    \cup {JArray(<<GoodPhase, ph>>) :
            ph \in {RawPhase(JString(""), JString("P-2"), JArray(<<>>)),
                    RawPhase(JNumber("2"), JString("P-2"), JArray(<<>>)),
                    RawPhase(JString("P2"), JString(""), JArray(<<>>)),
                    RawPhase(JString("P2"), JAbsent, JArray(<<>>)),
                    [RawPhase(JAbsent, JAbsent, JArray(<<>>)) EXCEPT !.type = "null"],
                    [RawPhase(JAbsent, JAbsent, JArray(<<>>)) EXCEPT !.type = "number"]}}
    \cup {JArray(<<RawPhase(JString("P1"), JString("P-1"), ms)>>) : ms \in BadMilestoneArrays}

(* A file that trySaveApplyCheckpoint could have written. *)
ValidFile(status, phases) ==
    [json |-> "object", version |-> JNumber("1"), status |-> JString(status),
     createdAt |-> JString(Timestamp), updatedAt |-> JString(Timestamp),
     specPath |-> JString(SpecPath), epicTitle |-> JString(EpicTitle),
     priority |-> JNumber("1"), withValidation |-> JBoolean("false"),
     reviewer |-> JString("reviewer"),
     applied |-> [type |-> "object", epicId |-> JString("E-1"), phases |-> phases],
     error |-> JAbsent]

ValidFiles ==
    {ValidFile(st, ph) : st \in {"in-progress", "failed", "completed"}, ph \in GoodPhaseArrays}

(* A file whose text is not JSON, or is JSON that is no checkpoint object. *)
NotAnObject(json) ==
    [json |-> json, version |-> JAbsent, status |-> JAbsent, createdAt |-> JAbsent,
     updatedAt |-> JAbsent, specPath |-> JAbsent, epicTitle |-> JAbsent,
     priority |-> JAbsent, withValidation |-> JAbsent, reviewer |-> JAbsent,
     applied |-> [type |-> "undefined", epicId |-> JAbsent,
                  phases |-> [type |-> "undefined", items |-> <<>>]],
     error |-> JAbsent]

StringFields == {"specPath", "epicTitle", "reviewer", "createdAt", "updatedAt"}

BadStrings == {JAbsent, JNull, JString(""), JString(" "), JNumber("1"), JBoolean("true")}

(* The files one damaged field makes of a valid file. *)
Damaged(file) ==
    {[file EXCEPT ![f] = v] : f \in StringFields, v \in BadStrings}
    \cup {[file EXCEPT !.version = v] : v \in {JAbsent, JNumber("2"), JString("1"), JNull}}
    \cup {[file EXCEPT !.status = v] :
            v \in {JAbsent, JString("invalid"), JString(""), JNull, JNumber("1")}}
    \cup {[file EXCEPT !.priority = v] :
            v \in {JAbsent, JNull, JString("1"), JNumber("5"), JNumber("-1"),
                   JNumber("1.5"), JBoolean("true")}}
    \cup {[file EXCEPT !.withValidation = v] :
            v \in {JAbsent, JNull, JString("true"), JNumber("1"), JNumber("0")}}
    \cup {[file EXCEPT !.applied.type = t] : t \in {"undefined", "null", "string"}}
    \cup {[file EXCEPT !.applied.phases = ph] : ph \in BadPhaseArrays}
    \cup {[file EXCEPT !.applied.epicId = v] :
            v \in {JAbsent, JNull, JString(""), JString(" "), JNumber("1")}}
    \cup {[file EXCEPT !.priority = JNumber(n)] : n \in {"0", "2", "3", "4"}}
    \cup {[file EXCEPT !.withValidation = JBoolean("true")]}

RawFiles ==
    ValidFiles
    \cup UNION {Damaged(file) : file \in ValidFiles}
    \cup {NotAnObject(json) : json \in {"unparseable", "null", "number", "string", "array"}}

(* The checkpoints directory: what readdirSync yields, and for each name
   what statSync says and what the file holds. *)
DirEntry(fileName, kind, mtimeMs, content) ==
    [fileName |-> fileName, kind |-> kind, mtimeMs |-> mtimeMs, content |-> content]

Mtimes == 1..MaxMtime

ListedFiles ==
    {ValidFile("failed", JArray(<<>>)), ValidFile("in-progress", JArray(<<GoodPhase>>)),
     ValidFile("completed", JArray(<<GoodPhase>>)), NotAnObject("unparseable"),
     [ValidFile("failed", JArray(<<>>)) EXCEPT !.version = JNumber("2")]}

Dirs ==
    {<<>>}
    \cup {<<DirEntry("a.json", "file", 1, f)>> : f \in RawFiles}
    \cup {<<DirEntry("a.json", "file", ta, fa), DirEntry("b.json", "file", tb, fb),
            DirEntry("C.JSON", "file", tc, fc),
            DirEntry("sub.json", "directory", MaxMtime, NotAnObject("unparseable")),
            DirEntry("notes.txt", "file", MaxMtime, ValidFile("failed", JArray(<<>>))),
            DirEntry("gone.json", "vanished", MaxMtime, ValidFile("failed", JArray(<<>>)))>> :
            ta \in Mtimes, tb \in Mtimes, tc \in Mtimes,
            fa \in ListedFiles, fb \in ListedFiles,
            fc \in {ValidFile("failed", JArray(<<>>)), ValidFile("completed", JArray(<<GoodPhase>>))}}

(* fileName.toLowerCase().endsWith(".json") on a lower-cased name *)
EndsWithJson(lowerCased) ==
    lowerCased \in {"a.json", "b.json", "c.json", "sub.json", "gone.json"}

(* The entry listApplyCheckpoints pushes for one regular file. *)
CheckpointListEntry(e) ==
    LET load == loadApplyCheckpointFile(e.content) IN
    IF load.kind = "returned"
    THEN [path |-> e.fileName, fileName |-> e.fileName, status |-> load.checkpoint.status,
          mtimeMs |-> e.mtimeMs, error |-> load.checkpoint.error]
    ELSE [path |-> e.fileName, fileName |-> e.fileName, status |-> "invalid",
          mtimeMs |-> e.mtimeMs, error |-> load.message]

(* The comparator turned around: oldest first. *)
OlderFirst(a, b) == a.mtimeMs < b.mtimeMs

(* (a, b) => b.mtimeMs - a.mtimeMs: a goes before b when a is newer. *)
NewerFirst(a, b) == a.mtimeMs > b.mtimeMs

(* entries.sort(...): the comparator's order, ties kept in the order they had. *)
RECURSIVE InsertSorted(_, _)
InsertSorted(e, sorted) ==
    IF sorted = <<>> THEN <<e>>
    ELSE IF NewerFirst(e, Head(sorted)) THEN <<e>> \o sorted
    ELSE <<Head(sorted)>> \o InsertSorted(e, Tail(sorted))

RECURSIVE Sort(_)
Sort(seq) ==
    IF seq = <<>> THEN <<>>
    ELSE InsertSorted(seq[Len(seq)], Sort(SubSeq(seq, 1, Len(seq) - 1)))

(* The loop of listApplyCheckpoints: names ending in .json that are files. *)
IsListed(e) == EndsWithJson(ToLowerCase(e.fileName)) /\ e.kind = "file"

listApplyCheckpoints(d) ==
    LET files == SelectSeq(d, IsListed) IN
    Sort([i \in 1..Len(files) |-> CheckpointListEntry(files[i])])

(* A find that takes any entry. *)
IsResumableAnyStatus(entry) == TRUE

(* entry.status === "failed" || entry.status === "in-progress" *)
IsResumable(entry) == entry.status \in {"failed", "in-progress"}

InputPaths == {Undefined, " ", "b.json", "sub.json", "missing.json"}

resolveResumeCheckpointPath(inputPath, d) ==
    LET listed == listApplyCheckpoints(d)
        resumable == {i \in 1..Len(listed) : IsResumable(listed[i])}
    IN
    IF inputPath # Undefined /\ Trim(inputPath) # ""
    THEN IF \E i \in 1..Len(d) : d[i].fileName = Trim(inputPath) /\ d[i].kind = "file"
         THEN [kind |-> "returned", path |-> Trim(inputPath), message |-> ""]
         ELSE [kind |-> "thrown", path |-> Undefined, message |-> "Checkpoint file not found"]
    ELSE IF Len(listed) = 0
    THEN [kind |-> "thrown", path |-> Undefined, message |-> "No checkpoints found"]
    ELSE IF resumable = {}
    THEN [kind |-> "thrown", path |-> Undefined, message |-> "No resumable checkpoint found"]
    ELSE [kind |-> "returned", message |-> "",
          path |-> listed[CHOOSE i \in resumable : \A k \in resumable : i <= k].path]

(* loadApplyCheckpoint(path) of the file at position i of the directory. *)
LoadFile(i) ==
    /\ loadResult = Pending
    /\ i \in 1..Len(dir)
    /\ dir[i].kind = "file"
    /\ LET load == loadApplyCheckpointFile(dir[i].content) IN
       loadResult' = [kind |-> load.kind, message |-> load.message,
                      checkpoint |-> load.checkpoint, file |-> i]
    /\ UNCHANGED <<dir, entries, resolved, mainVars, clientVars, tokens, specFile, parsedPlan>>

ListCheckpoints ==
    /\ entries = Pending
    /\ entries' = [kind |-> "returned", value |-> listApplyCheckpoints(dir)]
    /\ UNCHANGED <<dir, loadResult, resolved, mainVars, clientVars, tokens, specFile, parsedPlan>>

ResolveCheckpoint(inputPath) ==
    /\ resolved = Pending
    /\ LET r == resolveResumeCheckpointPath(inputPath, dir) IN
       resolved' = [kind |-> r.kind, path |-> r.path, message |-> r.message,
                    inputPath |-> inputPath]
    /\ UNCHANGED <<dir, loadResult, entries, mainVars, clientVars, tokens, specFile, parsedPlan>>

----------------------------------------------------------------------------

Init ==
    /\ specDoc \in SpecPlans
    /\ pc = "idle"
    /\ plan = NoPlan
    /\ args = NoArgs
    /\ checkpoint = NoCheckpoint
    /\ disk = NoFile
    /\ epicId = NoId
    /\ previousPhaseId = NoId
    /\ milestoneId = NoId
    /\ validationId = NoId
    /\ phaseIndex = 1
    /\ milestoneIndex = 1
    /\ calls = <<>>
    /\ nextId = 1
    /\ result = NoResult
    /\ runs = 0
    /\ saveFailures = 0
    /\ callFailures = 0
    /\ edits = 0
    /\ atStart = [doc |-> NoPlan, disk |-> NoFile, saveFailures |-> 0, calls |-> 0]
    /\ env = NoEnv
    /\ options = NoOptions
    /\ attempt = 1
    /\ invocations = <<>>
    /\ response = Pending
    /\ dir = <<>>
    /\ loadResult = Pending
    /\ entries = Pending
    /\ resolved = Pending
    /\ tokens = <<>>
    /\ specFile = NoSpecFile /\ parsedPlan = Pending

(* Every step but the start of an apply. *)
Steps ==
    \/ \E o \in DoctorOutcomes : ApplyDoctor(o)
    \/ \E w \in BOOLEAN : ApplyBegin(w)
    \/ \E o \in CallOutcomes, w \in BOOLEAN : ApplyEpic(o, w)
    \/ \E w1, w2 \in BOOLEAN : ApplyEpicSave(w1, w2)
    \/ \E o \in CallOutcomes, w \in BOOLEAN : ApplyPhase(o, w)
    \/ \E w1, w2 \in BOOLEAN : ApplyPhaseSave(w1, w2)
    \/ \E o \in CallOutcomes, w \in BOOLEAN : ApplyMilestone(o, w)
    \/ \E o \in CallOutcomes, w \in BOOLEAN : ApplyValidation(o, w)
    \/ \E w1, w2 \in BOOLEAN : ApplyMilestoneSave(w1, w2)
    \/ \E w \in BOOLEAN : ApplyFinal(w)
    \/ \E r \in ReviewerArgs : ResumeStart(r)
    \/ \E o \in DoctorOutcomes : ResumeDoctor(o)
    \/ \E w \in BOOLEAN : ResumeBegin(w)
    \/ \E o \in CallOutcomes, w \in BOOLEAN : ResumeEpic(o, w)
    \/ \E w1, w2 \in BOOLEAN : ResumeEpicSave(w1, w2)
    \/ \E o \in CallOutcomes, w \in BOOLEAN : ResumePhase(o, w)
    \/ \E w1, w2 \in BOOLEAN : ResumePhaseSave(w1, w2)
    \/ \E o \in CallOutcomes, w \in BOOLEAN : ResumeMilestone(o, w)
    \/ \E w1, w2 \in BOOLEAN : ResumeMilestoneSave(w1, w2)
    \/ \E o \in CallOutcomes, w \in BOOLEAN : ResumeValidation(o, w)
    \/ \E w1, w2 \in BOOLEAN : ResumeValidationSave(w1, w2)
    \/ \E w \in BOOLEAN : ResumeFinal(w)
    \/ \E d \in EditedDocs(specDoc) : EditSpec(d)

Next ==
    \/ \E v \in BOOLEAN : ApplyStart(v)
    \/ Steps

Spec == Init /\ [][Next]_vars

(* Apply and resume of one plan under every run configuration: validation
   on or off, every priority, --reviewer given or not, and the environment's
   SPEC_REVIEWER (unset, set but empty, set) and USER (unset, set). *)
Environments ==
    [SPEC_REVIEWER : {Undefined, "", "bob"}, USER : {Undefined, "carol"}]

LoadInit ==
    /\ specDoc = SpecPlan(<<1>>) /\ pc = "idle" /\ plan = NoPlan /\ args = NoArgs
    /\ checkpoint = NoCheckpoint /\ disk = NoFile
    /\ epicId = NoId /\ previousPhaseId = NoId /\ milestoneId = NoId /\ validationId = NoId
    /\ phaseIndex = 1 /\ milestoneIndex = 1 /\ calls = <<>> /\ nextId = 1
    /\ result = NoResult /\ runs = 0 /\ saveFailures = 0 /\ callFailures = 0 /\ edits = 0
    /\ atStart = [doc |-> NoPlan, disk |-> NoFile, saveFailures |-> 0, calls |-> 0]
    /\ env \in Environments
    /\ options = NoOptions
    /\ attempt = 1
    /\ invocations = <<>>
    /\ response = Pending
    /\ dir = <<>> /\ loadResult = Pending /\ entries = Pending /\ resolved = Pending
    /\ tokens = <<>>
    /\ specFile = NoSpecFile /\ parsedPlan = Pending

LoadNext ==
    \/ \E v \in BOOLEAN, p \in Priorities, r \in ReviewerArgs : ApplyStartWith(v, p, r)
    \/ Steps

LoadSpec == LoadInit /\ [][LoadNext]_vars

(* One runGrnswJson call under every retry configuration. *)
ClientInit ==
    /\ specDoc = SpecPlan(<<>>) /\ pc = "idle" /\ plan = NoPlan /\ args = NoArgs
    /\ checkpoint = NoCheckpoint /\ disk = NoFile
    /\ epicId = NoId /\ previousPhaseId = NoId /\ milestoneId = NoId /\ validationId = NoId
    /\ phaseIndex = 1 /\ milestoneIndex = 1 /\ calls = <<>> /\ nextId = 1
    /\ result = NoResult /\ runs = 0 /\ saveFailures = 0 /\ callFailures = 0 /\ edits = 0
    /\ atStart = [doc |-> NoPlan, disk |-> NoFile, saveFailures |-> 0, calls |-> 0]
    /\ env = NoEnv
    /\ options \in [retries : 0..MaxRetries, retryOnError : BOOLEAN]
    /\ attempt = 1
    /\ invocations = <<>>
    /\ response = Pending
    /\ dir = <<>> /\ loadResult = Pending /\ entries = Pending /\ resolved = Pending
    /\ tokens = <<>>
    /\ specFile = NoSpecFile /\ parsedPlan = Pending

ClientNext ==
    \/ ExecRaises
    \/ \E r \in ExecResults : ExecReturns(r)

ClientSpec == ClientInit /\ [][ClientNext]_vars

(* One runGrnswJson call in which every attempt of pi.exec ends, raising or
   returning. *)
ClientFairSpec == ClientInit /\ [][ClientNext]_vars /\ WF_vars(ClientNext)

(* Apply and resume with a checkpoint file that may lose its epic id between
   two runs. *)
EditedFileInit ==
    /\ specDoc \in {SpecPlan(<<1>>), SpecPlan(<<1, 0>>)}
    /\ pc = "idle" /\ plan = NoPlan /\ args = NoArgs
    /\ checkpoint = NoCheckpoint /\ disk = NoFile
    /\ epicId = NoId /\ previousPhaseId = NoId /\ milestoneId = NoId /\ validationId = NoId
    /\ phaseIndex = 1 /\ milestoneIndex = 1 /\ calls = <<>> /\ nextId = 1
    /\ result = NoResult /\ runs = 0 /\ saveFailures = 0 /\ callFailures = 0 /\ edits = 0
    /\ atStart = [doc |-> NoPlan, disk |-> NoFile, saveFailures |-> 0, calls |-> 0]
    /\ env = NoEnv
    /\ options = NoOptions /\ attempt = 1 /\ invocations = <<>> /\ response = Pending
    /\ dir = <<>> /\ loadResult = Pending /\ entries = Pending /\ resolved = Pending
    /\ tokens = <<>>
    /\ specFile = NoSpecFile /\ parsedPlan = Pending

EditedFileNext ==
    \/ \E v \in BOOLEAN : ApplyStart(v)
    \/ Steps
    \/ RemoveEpicId

EditedFileSpec == EditedFileInit /\ [][EditedFileNext]_vars

(* The argument list of /spec-to-grns as splitShellArgs yields it: tokens are
   never empty. *)
ArgTokens ==
    {"--apply", "--with-validation", "--reviewer", "--priority", "--help", "-h",
     "--bogus", "-x", "-1", "alice", "feature.md", "missing.md", "3", "5", "1abc"}

StartsWithDash(token) ==
    token \in {"--apply", "--with-validation", "--reviewer", "--priority", "--help", "-h",
               "--bogus", "-x", "-1"}

StartsWithDashDash(token) ==
    token \in {"--apply", "--with-validation", "--reviewer", "--priority", "--help",
               "--bogus"}

(* /^[0-4]$/ *)
IsPriorityDigit(value) == value \in {"0", "1", "2", "3", "4"}

ParseInt(value) ==
    CASE value = "0" -> 0
      [] value = "1" -> 1
      [] value = "2" -> 2
      [] value = "3" -> 3
      [] value = "4" -> 4

ParsedArgs ==
    [specPath |-> Undefined, apply |-> FALSE, withValidation |-> FALSE,
     reviewer |-> Undefined, priority |-> DefaultPriority, help |-> FALSE]

ParseError(message) ==
    [ok |-> FALSE, message |-> message, out |-> ParsedArgs, positional |-> <<>>]

RECURSIVE ParseTokens(_, _, _)
ParseTokens(toks, i, st) ==
    IF i > Len(toks) THEN st
    ELSE LET token == toks[i]
             value == IF i + 1 <= Len(toks) THEN toks[i + 1] ELSE Undefined
         IN  CASE token = "--apply" ->
                    ParseTokens(toks, i + 1, [st EXCEPT !.out.apply = TRUE])
               [] token = "--with-validation" ->
                    ParseTokens(toks, i + 1, [st EXCEPT !.out.withValidation = TRUE])
               [] token = "--reviewer" ->
                    IF value = Undefined \/ StartsWithDash(value)
                    THEN ParseError("--reviewer requires a value")
                    ELSE ParseTokens(toks, i + 2, [st EXCEPT !.out.reviewer = value])
               [] token = "--priority" ->
                    IF value = Undefined \/ StartsWithDash(value)
                    THEN ParseError("--priority requires a value")
                    ELSE IF ~IsPriorityDigit(value)
                    THEN ParseError("--priority must be an integer between 0 and 4")
                    ELSE ParseTokens(toks, i + 2,
                                     [st EXCEPT !.out.priority = ParseInt(value)])
               [] token \in {"--help", "-h"} ->
                    ParseTokens(toks, i + 1, [st EXCEPT !.out.help = TRUE])
               [] OTHER ->
                    IF StartsWithDashDash(token)
                    THEN ParseError("unknown option")
                    ELSE ParseTokens(toks, i + 1,
                                     [st EXCEPT !.positional = Append(@, token)])

parseArgs(toks) ==
    LET st == ParseTokens(toks, 1, [ok |-> TRUE, message |-> "", out |-> ParsedArgs,
                                    positional |-> <<>>])
    IN  IF ~st.ok THEN st
        ELSE IF Len(st.positional) > 1 THEN ParseError("only one spec path is supported")
        ELSE IF Len(st.positional) = 1
        THEN [st EXCEPT !.out.specPath = st.positional[1]]
        ELSE st

(* The spec files of the working directory; each holds the document specDoc.
   SPEC_DIR and SPEC_PATH are unset. *)
ExistingSpecFiles == {"spec.md", "feature.md"}

resolveSpecPath(inputPath) ==
    IF inputPath # Undefined /\ inputPath \in ExistingSpecFiles THEN inputPath
    ELSE "spec.md"

(* The /spec-to-grns handler on the argument list tokens; confirmed is the
   answer to the confirmation dialog. *)
SpecToGrns(confirmed) ==
    /\ pc = "idle"
    /\ runs = 0
    /\ result = NoResult
    /\ LET parsed == parseArgs(tokens) IN
       IF ~parsed.ok
       THEN /\ result' = [kind |-> "error", message |-> parsed.message]
            /\ UNCHANGED <<specDoc, plan, args, checkpoint, disk, idVars, loopVars, calls,
                           nextId, callFailures, runs, atStart, pc, saveFailures, edits>>
            /\ UNCHANGED <<clientVars, storeVars, tokens, specFile, parsedPlan, env>>
       ELSE IF parsed.out.help
       THEN /\ result' = [kind |-> "usage"]
            /\ UNCHANGED <<specDoc, plan, args, checkpoint, disk, idVars, loopVars, calls,
                           nextId, callFailures, runs, atStart, pc, saveFailures, edits>>
            /\ UNCHANGED <<clientVars, storeVars, tokens, specFile, parsedPlan, env>>
       ELSE IF ~parsed.out.apply \/ ~confirmed
       THEN /\ plan' = specDoc
            /\ result' = [kind |-> IF parsed.out.apply THEN "cancelled" ELSE "preview",
                          specPath |-> resolveSpecPath(parsed.out.specPath)]
            /\ UNCHANGED <<specDoc, args, checkpoint, disk, idVars, loopVars, calls,
                           nextId, callFailures, runs, atStart, pc, saveFailures, edits>>
            /\ UNCHANGED <<clientVars, storeVars, tokens, specFile, parsedPlan, env>>
       ELSE ApplyStartWith(parsed.out.withValidation, parsed.out.priority,
                           parsed.out.reviewer)

(* Every argument list of up to two tokens, and longer lists of well-formed
   pairs. *)
ArgLists ==
    {<<>>}
    \cup {<<a>> : a \in ArgTokens}
    \cup {<<a, b>> : a, b \in ArgTokens}
    \cup {<<"--apply", a, b>> : a, b \in ArgTokens}
    \cup {<<"--apply", "--with-validation", "--reviewer", "alice">>,
          <<"--apply", "--with-validation", "--priority", "3">>,
          <<"--with-validation", "--reviewer", "alice", "--apply", "feature.md">>,
          <<"--apply", "feature.md", "--priority", "5">>,
          <<"--apply", "feature.md", "--with-validation", "missing.md">>}

ArgsInit ==
    /\ specDoc = SpecPlan(<<1>>) /\ pc = "idle" /\ plan = NoPlan /\ args = NoArgs
    /\ checkpoint = NoCheckpoint /\ disk = NoFile
    /\ epicId = NoId /\ previousPhaseId = NoId /\ milestoneId = NoId /\ validationId = NoId
    /\ phaseIndex = 1 /\ milestoneIndex = 1 /\ calls = <<>> /\ nextId = 1
    /\ result = NoResult /\ runs = 0 /\ saveFailures = 0 /\ callFailures = 0 /\ edits = 0
    /\ atStart = [doc |-> NoPlan, disk |-> NoFile, saveFailures |-> 0, calls |-> 0]
    /\ env = NoEnv
    /\ options = NoOptions /\ attempt = 1 /\ invocations = <<>> /\ response = Pending
    /\ dir = <<>> /\ loadResult = Pending /\ entries = Pending /\ resolved = Pending
    /\ tokens \in ArgLists
    /\ specFile = NoSpecFile /\ parsedPlan = Pending

ArgsNext ==
    \/ \E confirmed \in BOOLEAN : SpecToGrns(confirmed)
    \/ Steps

ArgsSpec == ArgsInit /\ [][ArgsNext]_vars

(* An apply in which every external call and every checkpoint write
   succeeds; once started it runs on to its end. *)
SuccessNext ==
    \/ \E v \in BOOLEAN : ApplyStart(v)
    \/ ApplyDoctor("ok")
    \/ ApplyBegin(TRUE)
    \/ ApplyEpic("ok", TRUE)
    \/ ApplyEpicSave(TRUE, TRUE)
    \/ ApplyPhase("ok", TRUE)
    \/ ApplyPhaseSave(TRUE, TRUE)
    \/ ApplyMilestone("ok", TRUE)
    \/ ApplyValidation("ok", TRUE)
    \/ ApplyMilestoneSave(TRUE, TRUE)
    \/ ApplyFinal(TRUE)

SuccessSpec == Init /\ [][SuccessNext]_vars /\ WF_vars(SuccessNext)

----------------------------------------------------------------------------
(* parseSpecFile: the lines of the model and what the regular expressions of
   the parser make of each of them *)

NoHeading == [level |-> 0, title |-> ""]

(* One to six # signs, whitespace, then the title, on the trimmed line. *)
parseHeading(line) ==
    CASE line = "# Billing" -> [level |-> 1, title |-> "Billing"]
      [] line = "# Rollout " -> [level |-> 1, title |-> "Rollout"]
      [] line = "# **Testing Plan:**" -> [level |-> 1, title |-> "**Testing Plan:**"]
      [] line = "# Phase 0: Prep" -> [level |-> 1, title |-> "Phase 0: Prep"]
      [] line = "## Phase 1: Core" -> [level |-> 2, title |-> "Phase 1: Core"]
      [] line = "### Phase 2: Polish" -> [level |-> 3, title |-> "Phase 2: Polish"]
      [] line = "## Phase and milestone plan" ->
            [level |-> 2, title |-> "Phase and milestone plan"]
      [] line = "### Milestone 1: API" -> [level |-> 3, title |-> "Milestone 1: API"]
      [] OTHER -> NoHeading

(* toLowerCase, then without ` * _, without colons, whitespace collapsed,
   trimmed. *)
normalizeSpecHeading(title) ==
    CASE title = "Billing" -> "billing"
      [] title = "Rollout" -> "rollout"
      [] title = "**Testing Plan:**" -> "testing plan"
      [] title = "Phase 0: Prep" -> "phase 0 prep"
      [] title = "Phase 1: Core" -> "phase 1 core"
      [] title = "Phase 2: Polish" -> "phase 2 polish"
      [] title = "Phase and milestone plan" -> "phase and milestone plan"
      [] title = "Milestone 1: API" -> "milestone 1 api"

STRUCTURAL_SPEC_HEADINGS ==
    {"abstract", "rationale", "specification", "further information",
     "implementation plan", "testing plan", "documentation plan"}

isStructuralSpecHeading(title) ==
    normalizeSpecHeading(title) \in STRUCTURAL_SPEC_HEADINGS

(* The normalized titles of the model that start with "phase", with
   "phase and milestone", and with "phase <number> acceptance criteria". *)
StartsWithPhase(normalized) ==
    normalized \in {"phase 0 prep", "phase 1 core", "phase 2 polish",
                    "phase and milestone plan"}

StartsWithPhaseAndMilestone(normalized) == normalized = "phase and milestone plan"

IsPhaseAcceptanceCriteria(normalized) == FALSE

isPhaseHeading(title) ==
    LET withoutPrefix == normalizeSpecHeading(title) IN
    IF ~StartsWithPhase(withoutPrefix) THEN FALSE
    ELSE IF StartsWithPhaseAndMilestone(withoutPrefix) THEN FALSE
    ELSE IF IsPhaseAcceptanceCriteria(withoutPrefix) THEN FALSE
    ELSE TRUE

(* The trimmed title starts with the word milestone, in any case, after an
   optional arabic or roman number with a dot or bracket. *)
isMilestoneHeading(title) == title = "Milestone 1: API"

NoBullet == ""

(* The bullet's text without marker, checkbox, bold and markup, when it
   starts with m<digits> or with milestone (not milestones). *)
parseMilestoneBullet(line) ==
    CASE line = "- [ ] M2 Docs" -> "M2 Docs"
      [] line = "* **Milestone 3: UI**" -> "Milestone 3: UI"
      [] OTHER -> NoBullet

(* The trimmed line contains "success criteria", in any case. *)
IsSuccessCriteriaMarker(line) == line = "Success Criteria:"

(* The trimmed line is bold from end to end. *)
IsBoldLine(line) == line = "**Deliverables**"

(* The trimmed line starts with - or * and whitespace. *)
IsBulletLine(line) ==
    line \in {"- [x] tests pass", "* fast", "- Milestones overview",
              "- [ ] M2 Docs", "* **Milestone 3: UI**"}

(* The bullet with its marker and checkbox replaced by "- ". *)
CriteriaLine(line) ==
    CASE line = "- [x] tests pass" -> "- tests pass"
      [] line = "* fast" -> "- fast"
      [] line = "- Milestones overview" -> "- Milestones overview"
      [] line = "- [ ] M2 Docs" -> "- M2 Docs"
      [] line = "* **Milestone 3: UI**" -> "- **Milestone 3: UI**"

(* The acceptance text is the sequence of its lines; the empty sequence
   stands for undefined. *)
NoAcceptance == <<>>

RECURSIVE CollectCriteria(_, _, _)
CollectCriteria(body, i, criteria) ==
    IF i > Len(body) THEN criteria
    ELSE LET line == body[i] IN
         IF line = ""
         THEN IF criteria # <<>> THEN criteria
              ELSE CollectCriteria(body, i + 1, criteria)
         ELSE IF IsBoldLine(line) /\ criteria # <<>> THEN criteria
         ELSE IF IsBulletLine(line)
         THEN CollectCriteria(body, i + 1, Append(criteria, CriteriaLine(line)))
         ELSE IF criteria # <<>> THEN criteria
         ELSE CollectCriteria(body, i + 1, criteria)

extractAcceptanceCriteria(body) ==
    LET markers == {i \in 1..Len(body) : IsSuccessCriteriaMarker(body[i])} IN
    IF markers = {} THEN NoAcceptance
    ELSE LET markerIndex == CHOOSE i \in markers : \A k \in markers : i <= k IN
         CollectCriteria(body, markerIndex + 1, <<>>)

(* basename without extension, split at - and _, each part capitalised. *)
deriveFallbackEpicTitle(specPath) ==
    CASE specPath = "docs/billing-plan_v2.md" -> "Billing Plan V2"
      [] specPath = "spec.md" -> "Spec"
      [] specPath = "--.md" -> "Spec Epic"

NoCurrentMilestone == [phase |-> 0, milestone |-> 0, body |-> <<>>]

UnsortedPhase == [title |-> "Phase: Unsorted", milestones |-> <<>>]

(* A parser that drops a milestone found before any phase heading. *)
PushMilestoneUnderPhaseOnly(st, title) ==
    IF st.phases = <<>> THEN st
    ELSE LET n == Len(st.phases)
             pushed == [st.phases EXCEPT ![n].milestones =
                           Append(@, [title |-> title, acceptance |-> NoAcceptance])] IN
         [st EXCEPT !.phases = pushed,
                    !.currentMilestone = [phase |-> n,
                                          milestone |-> Len(pushed[n].milestones),
                                          body |-> <<>>]]

(* if (!currentPhase) push the synthetic phase; push the milestone on the
   current phase, which is the last one pushed. *)
PushMilestone(st, title) ==
    LET phases == IF st.phases = <<>> THEN <<UnsortedPhase>> ELSE st.phases
        n == Len(phases)
        pushed == [phases EXCEPT ![n].milestones =
                      Append(@, [title |-> title, acceptance |-> NoAcceptance])] IN
    [st EXCEPT !.phases = pushed,
               !.currentMilestone = [phase |-> n, milestone |-> Len(pushed[n].milestones),
                                     body |-> <<>>]]

(* A parser whose every level-1 heading outside the structural list sets the
   epic title. *)
TakesEpicTitleAlways(st, heading) ==
    heading.level = 1 /\ ~isStructuralSpecHeading(heading.title)

TakesEpicTitle(st, heading) ==
    /\ heading.level = 1
    /\ ~st.epicTitleSetFromHeading
    /\ ~isStructuralSpecHeading(heading.title)

(* One iteration of for (const line of lines). *)
ParseLine(st, line) ==
    LET heading == parseHeading(line)
        titled == IF heading # NoHeading /\ TakesEpicTitle(st, heading)
                  THEN [st EXCEPT !.epicTitle = heading.title,
                                  !.epicTitleSetFromHeading = TRUE]
                  ELSE st
        st1 == IF heading # NoHeading /\ heading.level <= 2
               THEN [titled EXCEPT !.currentMilestone = NoCurrentMilestone]
               ELSE titled
        milestoneFromBullet == parseMilestoneBullet(line) IN
    IF heading # NoHeading /\ isPhaseHeading(heading.title)
    THEN [st1 EXCEPT !.phases = Append(@, [title |-> heading.title, milestones |-> <<>>])]
    ELSE IF heading # NoHeading /\ isMilestoneHeading(heading.title)
    THEN PushMilestone(st1, heading.title)
    ELSE IF milestoneFromBullet # NoBullet
    THEN PushMilestone(st1, milestoneFromBullet)
    ELSE IF st1.currentMilestone # NoCurrentMilestone
    THEN LET cm == st1.currentMilestone
             body == Append(cm.body, line)
             extracted == extractAcceptanceCriteria(body) IN
         [st1 EXCEPT !.currentMilestone.body = body,
                     !.phases[cm.phase].milestones[cm.milestone].acceptance =
                         IF extracted # NoAcceptance THEN extracted ELSE @]
    ELSE st1

RECURSIVE ParseLines(_, _, _)
ParseLines(lines, i, st) ==
    IF i > Len(lines) THEN st
    ELSE ParseLines(lines, i + 1, ParseLine(st, lines[i]))

parseSpecFile(specPath, lines) ==
    LET st == ParseLines(lines, 1,
                         [epicTitle |-> deriveFallbackEpicTitle(specPath),
                          epicTitleSetFromHeading |-> FALSE,
                          phases |-> <<>>,
                          currentMilestone |-> NoCurrentMilestone]) IN
    [specPath |-> specPath, epicTitle |-> st.epicTitle, phases |-> st.phases]

ParseSpecFile ==
    /\ parsedPlan = Pending
    /\ parsedPlan' = parseSpecFile(specFile.path, specFile.lines)
    /\ UNCHANGED <<mainVars, clientVars, storeVars, tokens, specFile>>

(* The documents: every sequence of up to MaxLines of the lines that make
   the structure of a plan, and a phase with a milestone followed by every
   sequence of up to MaxLines of the lines that make an acceptance text. *)
MaxLines == 4

StructureLines ==
    {"# Billing", "# Rollout ", "# **Testing Plan:**", "# Phase 0: Prep",
     "## Phase 1: Core", "### Phase 2: Polish", "## Phase and milestone plan",
     "### Milestone 1: API", "- [ ] M2 Docs", "Notes"}

AcceptanceLines ==
    {"### Phase 2: Polish", "## Phase and milestone plan", "* **Milestone 3: UI**",
     "Success Criteria:", "- [x] tests pass", "* fast", "- Milestones overview",
     "", "Notes", "**Deliverables**"}

SeqsUpTo(S, n) == UNION {[1..k -> S] : k \in 0..n}

Docs ==
    SeqsUpTo(StructureLines, MaxLines)
    \cup {<<"## Phase 1: Core", "### Milestone 1: API">> \o t :
            t \in SeqsUpTo(AcceptanceLines, MaxLines)}

SpecFilePaths == {"docs/billing-plan_v2.md", "spec.md", "--.md"}

SpecFiles ==
    {[path |-> "docs/billing-plan_v2.md", lines |-> d] : d \in Docs}
    \cup {[path |-> p, lines |-> d] :
            p \in SpecFilePaths, d \in SeqsUpTo(StructureLines, 1)}

ParseInit ==
    /\ specDoc = SpecPlan(<<>>) /\ pc = "idle" /\ plan = NoPlan /\ args = NoArgs
    /\ checkpoint = NoCheckpoint /\ disk = NoFile
    /\ epicId = NoId /\ previousPhaseId = NoId /\ milestoneId = NoId /\ validationId = NoId
    /\ phaseIndex = 1 /\ milestoneIndex = 1 /\ calls = <<>> /\ nextId = 1
    /\ result = NoResult /\ runs = 0 /\ saveFailures = 0 /\ callFailures = 0 /\ edits = 0
    /\ atStart = [doc |-> NoPlan, disk |-> NoFile, saveFailures |-> 0, calls |-> 0]
    /\ env = NoEnv
    /\ options = NoOptions /\ attempt = 1 /\ invocations = <<>> /\ response = Pending
    /\ dir = <<>> /\ loadResult = Pending /\ entries = Pending /\ resolved = Pending
    /\ tokens = <<>>
    /\ specFile \in SpecFiles
    /\ parsedPlan = Pending

ParseNext == ParseSpecFile

ParseSpec == ParseInit /\ [][ParseNext]_vars

(* The checkpoint store on every directory of the model. *)
StoreInit ==
    /\ specDoc = SpecPlan(<<>>) /\ pc = "idle" /\ plan = NoPlan /\ args = NoArgs
    /\ checkpoint = NoCheckpoint /\ disk = NoFile
    /\ epicId = NoId /\ previousPhaseId = NoId /\ milestoneId = NoId /\ validationId = NoId
    /\ phaseIndex = 1 /\ milestoneIndex = 1 /\ calls = <<>> /\ nextId = 1
    /\ result = NoResult /\ runs = 0 /\ saveFailures = 0 /\ callFailures = 0 /\ edits = 0
    /\ atStart = [doc |-> NoPlan, disk |-> NoFile, saveFailures |-> 0, calls |-> 0]
    /\ env = NoEnv
    /\ options = NoOptions /\ attempt = 1 /\ invocations = <<>> /\ response = Pending
    /\ dir \in Dirs
    /\ loadResult = Pending /\ entries = Pending /\ resolved = Pending
    /\ tokens = <<>>
    /\ specFile = NoSpecFile /\ parsedPlan = Pending

StoreNext ==
    \/ \E i \in 1..Len(dir) : LoadFile(i)
    \/ ListCheckpoints
    \/ \E p \in InputPaths : ResolveCheckpoint(p)

StoreSpec == StoreInit /\ [][StoreNext]_vars


----------------------------------------------------------------------------
(* What the call log and a checkpoint say about the plan's entities *)

IsCreation(c) == c.cmd # "doctor"
Succeeded(c) == c.cmd # "doctor" /\ c.outcome = "ok"

(* The plan entity a creation call is for: command, phase index, milestone index. *)
Entity(c) ==
    IF c.cmd = "epic" THEN <<"epic", 0, 0>>
    ELSE IF c.cmd = "phase" THEN <<"phase", c.phase, 0>>
    ELSE <<c.cmd, c.phase, c.milestone>>

CallsOfRun(r) == SelectSeq(calls, LAMBDA c : c.run = r)
CreationsOfRun(r) == SelectSeq(calls, LAMBDA c : c.run = r /\ IsCreation(c))
CreatedIds(r) == {calls[i].id : i \in {k \in 1..Len(calls) : calls[k].run = r /\ Succeeded(calls[k])}}

(* The entities a checkpoint records, each with its id (a phase also with its
   title and dependsOn, a milestone with its title). *)
Entities(cp) ==
    LET ph == cp.applied.phases IN
    {<<"epic", 0, 0, cp.applied.epicId, 0, 0>> : k \in {1} \ {IF cp.applied.epicId = NoId THEN 1 ELSE 0}}
    \cup {<<"phase", i, 0, ph[i].id, ph[i].title, ph[i].dependsOn>> : i \in 1..Len(ph)}
    \cup UNION {{<<"milestone", i, j, ph[i].milestones[j].id, ph[i].milestones[j].title, 0>> :
                    j \in 1..Len(ph[i].milestones)} : i \in 1..Len(ph)}
    \cup UNION {{<<"validation", i, j, ph[i].milestones[j].validationId, 0, 0>> :
                    j \in {k \in 1..Len(ph[i].milestones) :
                              ph[i].milestones[k].validationId # NoId}} : i \in 1..Len(ph)}

(* applied.phases of cp is a prefix of p.phases by index and title, and so are
   the milestones of every recorded phase. *)
IsPrefixOfPlan(cp, p) ==
    LET ph == cp.applied.phases IN
    /\ Len(ph) <= Len(p.phases)
    /\ \A i \in 1..Len(ph) :
          /\ ph[i].title = p.phases[i].title
          /\ Len(ph[i].milestones) <= Len(p.phases[i].milestones)
          /\ \A j \in 1..Len(ph[i].milestones) :
                ph[i].milestones[j].title = p.phases[i].milestones[j].title

StructurallyCompatible(cp, p) ==
    /\ cp.specPath = p.specPath
    /\ cp.epicTitle = p.epicTitle
    /\ IsPrefixOfPlan(cp, p)

RECURSIVE Flatten(_)
Flatten(ss) == IF ss = <<>> THEN <<>> ELSE Head(ss) \o Flatten(Tail(ss))

(* The entities of plan p in plan order. *)
PlanOrder(p, withValidation) ==
    <<<<"epic", 0, 0>>>> \o
    Flatten([i \in 1..Len(p.phases) |->
        <<<<"phase", i, 0>>>> \o
        Flatten([j \in 1..Len(p.phases[i].milestones) |->
            IF withValidation THEN <<<<"milestone", i, j>>, <<"validation", i, j>>>>
                              ELSE <<<<"milestone", i, j>>>>])])

Records(cp, e) == \E x \in Entities(cp) : <<x[1], x[2], x[3]>> = e

(* The entities of p that cp does not record, in plan order. *)
Missing(cp, p) ==
    SelectSeq(PlanOrder(p, cp.withValidation), LAMBDA e : ~Records(cp, e))

Idle == pc = "idle"

(* The current run is a resume that got past the compatibility check and the
   completed-checkpoint shortcut, i.e. it reached the health check. *)
Resumed == runs >= 2 /\ Len(calls) > atStart.calls

AllCallsSucceeded(r) == \A i \in 1..Len(calls) : calls[i].run = r => calls[i].outcome = "ok"

----------------------------------------------------------------------------
(* C1: no duplicate creation across failure and resume.  For an apply that
   fails at an external call, every checkpoint write succeeding, followed by
   a resume against the unchanged plan, no plan entity is created by two
   successful external calls of the two runs. *)
C1_NoDuplicateCreation ==
    (runs <= 2 /\ saveFailures = 0 /\ edits = 0) =>
        \A i, j \in 1..Len(calls) :
            (i < j /\ Succeeded(calls[i]) /\ Succeeded(calls[j]))
                => Entity(calls[i]) # Entity(calls[j])

(* C2: persist before next call.  Whenever apply or resume is about to issue
   a creation call, every id returned by an earlier successful creation call
   of the run is on disk; and at every point of a run at most one successful
   creation of the run is absent from the checkpoint file. *)
AboutToCreate ==
    \/ pc \in {"a_epic", "a_validation"}
    \/ pc = "a_phase" /\ phaseIndex <= Len(plan.phases)
    \/ pc = "a_milestone" /\ milestoneIndex <= Len(plan.phases[phaseIndex].milestones)
    \/ pc = "r_epic" /\ NeedsEpic(checkpoint)
    \/ pc = "r_phase" /\ phaseIndex <= Len(plan.phases)
                      /\ phaseIndex > Len(checkpoint.applied.phases)
    \/ pc = "r_milestone"
          /\ milestoneIndex <= Len(plan.phases[phaseIndex].milestones)
          /\ milestoneIndex > Len(checkpoint.applied.phases[phaseIndex].milestones)
    \/ pc = "r_validation"
          /\ NeedsValidation(checkpoint,
                 checkpoint.applied.phases[phaseIndex].milestones[milestoneIndex])

C2_PersistBeforeNextCall ==
    /\ AboutToCreate => CreatedIds(runs) \subseteq RecordedIds(disk)
    /\ ~Idle => Cardinality(CreatedIds(runs) \ RecordedIds(disk)) <= 1

(* C3: prefix invariant.  Every checkpoint state that a run has written is a
   prefix of the run's plan: phases by index and title, and the milestones of
   each recorded phase by index and title. *)
C3_PrefixInvariant ==
    (runs >= 1 /\ disk # atStart.disk) => IsPrefixOfPlan(disk, plan)

C3_Witness ==
    /\ runs >= 2
    /\ disk # atStart.disk
    /\ disk.status = "failed"
    /\ Len(disk.applied.phases) >= 1
    /\ Len(disk.applied.phases) > Len(atStart.disk.applied.phases)
    /\ Len(disk.applied.phases[1].milestones) >= 1
    /\ Len(disk.applied.phases) < Len(plan.phases)

(* C4 as stated: across a failed apply followed by a resume there is exactly
   one `epic new` call in total. *)
EpicCalls == {i \in 1..Len(calls) : calls[i].cmd = "epic"}

C4_ExactlyOneEpicCall ==
    (runs = 2 /\ Resumed /\ saveFailures = 0 /\ edits = 0
     /\ pc \notin {"r_doctor", "r_begin", "r_epic"})
        => Cardinality(EpicCalls) = 1

(* C4 amended: at most one `epic new` call succeeds when every checkpoint
   write succeeds, exactly one `epic new` call is made when the apply's epic
   call succeeded, and no `epic new` call is issued once the checkpoint file
   records an epic id: the recorded id is the one the last `epic new` call
   returned. *)
C4_AtMostOneEpic ==
    /\ saveFailures = 0 =>
          /\ Cardinality({i \in EpicCalls : calls[i].outcome = "ok"}) <= 1
          /\ (\E i \in EpicCalls : calls[i].run = 1 /\ calls[i].outcome = "ok")
                => Cardinality(EpicCalls) = 1
    /\ disk.applied.epicId # NoId =>
          \E i \in EpicCalls :
              /\ calls[i].id = disk.applied.epicId
              /\ \A k \in EpicCalls : k <= i

C4_Witness ==
    /\ runs = 2
    /\ Idle
    /\ result.kind = "returned"
    /\ Len(CreationsOfRun(2)) >= 1
    /\ Cardinality(EpicCalls) = 1
    /\ atStart.disk.applied.epicId # NoId

(* C5: linear phase chain.  In every checkpoint, in memory and on disk, phase
   1 has no dependsOn and the dependsOn of every later phase is the id of the
   phase before it; every `phase add` call carries no --depends-on for the
   first phase and the recorded id of the preceding phase for a later one. *)
IsChain(cp) ==
    \A i \in 1..Len(cp.applied.phases) :
        cp.applied.phases[i].dependsOn =
            IF i = 1 THEN NoId ELSE cp.applied.phases[i - 1].id

C5_LinearPhaseChain ==
    /\ IsChain(disk)
    /\ IsChain(checkpoint)
    /\ \A k \in 1..Len(calls) :
          calls[k].cmd = "phase" =>
              /\ calls[k].phase - 1 <= Len(disk.applied.phases)
              /\ calls[k].dependsOn =
                    IF calls[k].phase = 1 THEN NoId
                    ELSE disk.applied.phases[calls[k].phase - 1].id
              /\ (calls[k].outcome = "ok" /\ calls[k].phase <= Len(disk.applied.phases)
                  /\ disk.applied.phases[calls[k].phase].id = calls[k].id)
                    => disk.applied.phases[calls[k].phase].dependsOn = calls[k].dependsOn

C5_Witness ==
    /\ Len(disk.applied.phases) >= 2
    /\ Len(atStart.disk.applied.phases) = 1
    /\ runs >= 2
    /\ disk.applied.phases[2].dependsOn = atStart.disk.applied.phases[1].id
    /\ disk.applied.phases[2].dependsOn # NoId

(* C6: partial failure surfaces counts.  When apply fails at an external
   call, the error carries the root failure, the checkpoint path and
   created-so-far values equal to the epic id and to the numbers of phases,
   milestones and validations whose creation calls succeeded, and the
   checkpoint file has status failed and records exactly those entities. *)
Count(r, cmd) ==
    Cardinality({i \in 1..Len(calls) :
                    calls[i].run = r /\ calls[i].cmd = cmd /\ calls[i].outcome = "ok"})

C6_PartialFailureCounts ==
    (runs = 1 /\ Idle /\ saveFailures = 0 /\ result.kind = "thrown"
     /\ Len(calls) >= 2 /\ calls[Len(calls)].outcome # "ok")
        => /\ result.message = FailureMessage(calls[Len(calls)].cmd, calls[Len(calls)].outcome)
           /\ result.recovery.checkpointFile = CheckpointPath
           /\ (Count(1, "epic") = 1) = (result.recovery.epic # NoId)
           /\ result.recovery.epic \in CreatedIds(1) \cup {NoId}
           /\ result.recovery.counts.phaseCount = Count(1, "phase")
           /\ result.recovery.counts.milestoneCount = Count(1, "milestone")
           /\ result.recovery.counts.validationCount = Count(1, "validation")
           /\ disk.status = "failed"
           /\ RecordedIds(disk) = CreatedIds(1)


(* C7 as stated: a resume of a failed or in-progress checkpoint against the
   unmodified plan in which every external call succeeds issues creation
   calls for exactly the missing entities, in plan order, and leaves the
   checkpoint with status completed. *)
RunKeys(r) == [i \in 1..Len(CreationsOfRun(r)) |-> Entity(CreationsOfRun(r)[i])]

ResumedUnmodified ==
    /\ Idle
    /\ Resumed
    /\ edits = 0
    /\ atStart.disk.status \in {"failed", "in-progress"}
    /\ AllCallsSucceeded(runs)

C7_ResumeCompletes ==
    ResumedUnmodified =>
        /\ RunKeys(runs) = Missing(atStart.disk, plan)
        /\ disk.status = "completed"

(* C7 amended: the same for a resume in which every external call and every
   checkpoint write succeeds. *)
C7_ResumeCompletesWhenWritesSucceed ==
    (ResumedUnmodified /\ saveFailures = atStart.saveFailures) =>
        /\ RunKeys(runs) = Missing(atStart.disk, plan)
        /\ disk.status = "completed"
        /\ result.kind = "returned"
        /\ Missing(disk, plan) = <<>>

C7_Witness ==
    /\ ResumedUnmodified
    /\ saveFailures = atStart.saveFailures
    /\ disk.status = "completed"
    /\ \E k \in 1..Len(RunKeys(runs)) :
          /\ RunKeys(runs)[k][1] = "validation"
          /\ Records(atStart.disk, <<"milestone", RunKeys(runs)[k][2], RunKeys(runs)[k][3]>>)
    /\ \E k \in 1..Len(RunKeys(runs)) : RunKeys(runs)[k][1] = "milestone"

(* C8: resume mismatch detection.  A resume whose loaded checkpoint is not
   structurally compatible with the freshly parsed plan fails without any
   external call, the health check included, and leaves the checkpoint file
   unchanged. *)
C8_MismatchDetection ==
    (runs >= 2 /\ ~StructurallyCompatible(atStart.disk, atStart.doc)) =>
        /\ Idle
        /\ result.kind = "thrown"
        /\ result.run = runs
        /\ Len(calls) = atStart.calls
        /\ disk = atStart.disk

C8_Witness ==
    /\ runs >= 2
    /\ atStart.disk.status = "failed"
    /\ atStart.disk.specPath = atStart.doc.specPath
    /\ atStart.disk.epicTitle = atStart.doc.epicTitle
    /\ ~IsPrefixOfPlan(atStart.disk, atStart.doc)
    /\ result.kind = "thrown"
    /\ result.run = runs

(* C9: abort on first failure.  A call that fails is the last call of its
   run: no call of the same run follows it. *)
C9_AbortOnFirstFailure ==
    \A i, j \in 1..Len(calls) :
        (i < j /\ calls[i].run = calls[j].run) => calls[i].outcome = "ok"

C9_Witness ==
    /\ Idle
    /\ Len(calls) >= 3
    /\ calls[Len(calls)].cmd = "phase"
    /\ calls[Len(calls)].outcome # "ok"
    /\ calls[Len(calls)].phase < Len(plan.phases)
    /\ Len(checkpoint.applied.phases) < Len(plan.phases)

(* C10 as stated: a failure of a creation call moves the checkpoint file to
   status failed and keeps everything recorded before. *)
LastCallFailed ==
    /\ Len(calls) > atStart.calls
    /\ IsCreation(calls[Len(calls)])
    /\ calls[Len(calls)].outcome # "ok"

CreationFails ==
    /\ Len(calls') = Len(calls) + 1
    /\ IsCreation(calls'[Len(calls')])
    /\ calls'[Len(calls')].outcome # "ok"

DoctorFails ==
    /\ Len(calls') = Len(calls) + 1
    /\ calls'[Len(calls')].cmd = "doctor"
    /\ calls'[Len(calls')].outcome # "ok"

RaisedInsidePlan ==
    /\ Idle
    /\ result.kind = "thrown"
    /\ result.run = runs
    /\ Len(calls) > atStart.calls
    /\ ~(calls[Len(calls)].cmd = "doctor" /\ calls[Len(calls)].outcome # "ok")

C11_RecoverySummaryAlways ==
    RaisedInsidePlan =>
        /\ result.recovery # NoResult
        /\ result.recovery.checkpointFile = CheckpointPath
        /\ result.recovery.duplicateWarning
        /\ result.recovery.epic = checkpoint.applied.epicId
        /\ result.recovery.counts = countAppliedEntities(checkpoint.applied.phases)
        /\ result.recovery.checkpointWriteFailed = (disk # checkpoint)

(* C12: final save on success.  When every creation of a run succeeded and
   the final write of status completed fails, the run returns success and
   the save failure is surfaced to the caller. *)
FinalSaveFailed ==
    /\ Idle
    /\ runs >= 1
    /\ Len(calls) > atStart.calls
    /\ checkpoint.status = "completed"
    /\ disk.status # "completed"

C12_FinalSaveSurfaced ==
    FinalSaveFailed =>
        /\ result.kind = "returned"
        /\ result.run = runs
        /\ result.saveError # NoError

(* C13: health-check gate.  A run whose doctor call does not end with ok true
   issues no creation call, every creation call of a run comes after an ok
   doctor call of that run, and an apply whose doctor call fails leaves no
   checkpoint file. *)
C13_HealthCheckGate ==
    /\ \A i \in 1..Len(calls) :
          (calls[i].cmd = "doctor" /\ calls[i].outcome # "ok") =>
              \A j \in 1..Len(calls) : calls[j].run = calls[i].run => ~IsCreation(calls[j])
    /\ \A j \in 1..Len(calls) :
          IsCreation(calls[j]) =>
              \E i \in 1..(j - 1) :
                  calls[i].run = calls[j].run /\ calls[i].cmd = "doctor" /\ calls[i].outcome = "ok"
    /\ (runs = 1 /\ \E i \in 1..Len(calls) : calls[i].cmd = "doctor" /\ calls[i].outcome # "ok")
          => (disk = NoFile /\ checkpoint = NoCheckpoint)
    /\ (runs = 1 /\ pc = "a_doctor") => disk = NoFile

C13_Witness ==
    /\ Idle
    /\ runs >= 2
    /\ calls[Len(calls)].cmd = "doctor"
    /\ calls[Len(calls)].outcome = "unhealthy"
    /\ calls[Len(calls)].run = runs
    /\ calls[1].outcome = "ok"
    /\ disk = atStart.disk
    /\ Missing(disk, plan) # <<>>

(* C14: resume start ordering.  When a checkpoint that is not completed is
   resumed, the file has status in-progress with the error cleared when the
   doctor call is issued, and the doctor call comes before any creation call
   of the run. *)
C14_ResumeStartOrdering ==
    /\ pc = "r_doctor" => (disk.status = "in-progress" /\ disk.error = NoError)
    /\ \A j \in 1..Len(calls) :
          (IsCreation(calls[j]) /\ calls[j].run >= 2) =>
              \E i \in 1..(j - 1) : calls[i].run = calls[j].run /\ calls[i].cmd = "doctor"

(* C15: a completed resume is a no-op.  Resuming a completed checkpoint that
   matches the plan issues no external call, leaves the file as it is and
   returns the applied view the checkpoint records. *)
C15_CompletedResumeNoOp ==
    (runs >= 2 /\ atStart.disk.status = "completed"
     /\ StructurallyCompatible(atStart.disk, atStart.doc)) =>
        /\ Idle
        /\ Len(calls) = atStart.calls
        /\ disk = atStart.disk
        /\ result.kind = "returned"
        /\ result.run = runs
        /\ result.applied = [epicTitle |-> atStart.doc.epicTitle,
                             epicId |-> atStart.disk.applied.epicId,
                             phases |-> atStart.disk.applied.phases,
                             specPath |-> atStart.disk.specPath]
        /\ result.applied.epicId # NoId

C15_Witness ==
    /\ runs >= 2
    /\ atStart.disk.status = "completed"
    /\ StructurallyCompatible(atStart.disk, atStart.doc)
    /\ Len(atStart.disk.applied.phases) >= 1
    /\ result.kind = "returned"
    /\ result.run = runs

----------------------------------------------------------------------------
(* What the attempts of one runGrnswJson call say *)

(* Text that indicates a timeout, in any letter case. *)
MentionsTimeout(text) == text \in {"timed out", "Timed out", "command timed out"}

(* An attempt that counts as a timeout: a non-zero exit of a killed process,
   with exit code 124, or with timeout text in stdout or stderr. *)
TimeoutIndicated(r) ==
    /\ ~r.raised
    /\ r.code # 0
    /\ (r.killed \/ r.code = 124 \/ MentionsTimeout(r.stdout) \/ MentionsTimeout(r.stderr))

(* An attempt that ends with a non-zero exit that is not a timeout. *)
PlainError(r) == ~r.raised /\ r.code # 0 /\ ~TimeoutIndicated(r)

Attempts == 1..Len(invocations)

(* C16: no blind retry of mutating calls on error exit.  Without
   retryOnError an attempt that ends with a non-zero exit that is not a
   timeout is the last attempt and the call fails, whatever the retries;
   with retryOnError it is followed by another attempt while attempts
   remain. *)
C16_NoBlindRetry ==
    \A i \in Attempts :
        PlainError(invocations[i]) =>
            IF options.retryOnError /\ i < options.retries + 1
            THEN i < Len(invocations) \/ (response = Pending /\ attempt = i + 1)
            ELSE /\ i = Len(invocations)
                 /\ response.kind = "thrown"
                 /\ response.message = "grnsw failed"

C16_Witness ==
    /\ ~options.retryOnError
    /\ options.retries = 2
    /\ Len(invocations) = 2
    /\ TimeoutIndicated(invocations[1])
    /\ PlainError(invocations[2])
    /\ response.kind = "thrown"

(* C17: only timeouts are retried automatically.  Without retryOnError every
   attempt that is followed by another attempt is a timeout; an attempt in
   which the process could not be launched is not. *)
C17_OnlyTimeoutsRetried ==
    ~options.retryOnError =>
        \A i \in Attempts : i < Len(invocations) => TimeoutIndicated(invocations[i])

(* C18: timeout retry.  While every attempt so far was a timeout and attempts
   remain the call goes on to the next attempt; when the attempt after k <=
   retries timeouts exits 0 with a JSON object the call returns that object
   after k+1 invocations; when all retries+1 attempts are timeouts the call
   fails with the timeout error after retries+1 invocations. *)
C18_TimeoutRetry ==
    /\ Len(invocations) <= options.retries + 1
    /\ (\A i \in Attempts : TimeoutIndicated(invocations[i])) =>
          IF Len(invocations) <= options.retries
          THEN response = Pending /\ attempt = Len(invocations) + 1
          ELSE /\ response.kind = "thrown"
               /\ response.message = "grnsw timed out"
               /\ response.attempt = options.retries + 1
    /\ (/\ Len(invocations) >= 1
        /\ \A i \in Attempts : i < Len(invocations) => TimeoutIndicated(invocations[i])
        /\ ~invocations[Len(invocations)].raised
        /\ invocations[Len(invocations)].code = 0
        /\ invocations[Len(invocations)].stdout = ObjectText) =>
          /\ response.kind = "returned"
          /\ response.value = "object"
          /\ response.attempt = Len(invocations)

C18_Witness ==
    /\ options.retries = 2
    /\ ~options.retryOnError
    /\ Len(invocations) = 3
    /\ invocations[1].code = 124
    /\ invocations[2].killed
    /\ invocations[2].code # 0
    /\ invocations[3].code = 0
    /\ response.kind = "returned"
    /\ response.value = "object"

(* C19: success contract of the external client.  An attempt with exit code
   0 ends the call: with the parsed object when stdout is a JSON object,
   with the empty object when stdout is empty, and with a hard error when
   stdout is not valid JSON or is JSON that is not an object (scalar, null,
   array). *)
C19_SuccessContract ==
    \A i \in Attempts :
        (~invocations[i].raised /\ invocations[i].code = 0) =>
            /\ i = Len(invocations)
            /\ IF invocations[i].stdout = ObjectText
               THEN response.kind = "returned" /\ response.value = "object"
               ELSE IF invocations[i].stdout \in {"", " "}
               THEN response.kind = "returned" /\ response.value = "{}"
               ELSE /\ response.kind = "thrown"
                    /\ response.message = "invalid grnsw JSON output"


(* C20: checkpoint always loadable.  Every checkpoint that apply or resume
   writes to disk is accepted by loadApplyCheckpoint, for every run
   configuration, and the load returns the status, the configuration and the
   applied ids that were written. *)
C20_AlwaysLoadable ==
    disk # NoFile =>
        /\ loadApplyCheckpoint(disk).ok
        /\ loadApplyCheckpoint(disk).checkpoint = disk

----------------------------------------------------------------------------
(* C24: parent before child.  The creation calls of a run come in plan
   order, every `phase add` carries the epic's id, every `milestone add` the
   id of the phase at its plan position and every `validation add` the id of
   the milestone at its plan position, where the id of an entity is the one
   its creation call of the run returned or, without such a call, the one
   the loaded checkpoint records; and every id a call carries was returned
   by an earlier successful call of the run or is recorded in the loaded
   checkpoint. *)
ParentEntity(c) ==
    IF c.cmd = "phase" THEN <<"epic", 0, 0>>
    ELSE IF c.cmd = "milestone" THEN <<"phase", c.phase, 0>>
    ELSE <<"milestone", c.phase, c.milestone>>

(* The id a checkpoint records for an entity, NoId when it records none. *)
RecordedId(cp, e) ==
    LET ph == cp.applied.phases IN
    IF e[1] = "epic" THEN cp.applied.epicId
    ELSE IF e[2] > Len(ph) THEN NoId
    ELSE IF e[1] = "phase" THEN ph[e[2]].id
    ELSE IF e[3] > Len(ph[e[2]].milestones) THEN NoId
    ELSE ph[e[2]].milestones[e[3]].id

(* The ids known when call k of the current run is issued. *)
KnownIds(k) ==
    RecordedIds(atStart.disk)
    \cup {calls[i].id : i \in {n \in 1..(k - 1) : calls[n].run = runs /\ Succeeded(calls[n])}}

(* The id of entity e when call k of the current run is issued. *)
EntityIdBefore(k, e) ==
    LET prior == {i \in 1..(k - 1) :
                     calls[i].run = runs /\ Succeeded(calls[i]) /\ Entity(calls[i]) = e} IN
    IF prior # {} THEN calls[CHOOSE i \in prior : \A n \in prior : n <= i].id
    ELSE RecordedId(atStart.disk, e)

PositionIn(seq, e) == CHOOSE i \in 1..Len(seq) : seq[i] = e

C24_ParentBeforeChild ==
    [](
        runs >= 1 =>
            LET order == PlanOrder(plan, TRUE)
                keys == RunKeys(runs) IN
            /\ \A i \in 1..Len(keys) : \E n \in 1..Len(order) : order[n] = keys[i]
            /\ \A i, j \in 1..Len(keys) :
                  i < j => PositionIn(order, keys[i]) < PositionIn(order, keys[j])
            /\ \A k \in 1..Len(calls) :
                  (calls[k].run = runs /\ IsCreation(calls[k])) =>
                      /\ calls[k].cmd = "epic" => calls[k].parent = NoId
                      /\ calls[k].cmd # "epic" =>
                            /\ calls[k].parent # NoId
                            /\ calls[k].parent = EntityIdBefore(k, ParentEntity(calls[k]))
                            /\ calls[k].parent \in KnownIds(k)
                      /\ calls[k].dependsOn # NoId => calls[k].dependsOn \in KnownIds(k)
    )

C24_Witness ==
    /\ runs >= 2
    /\ \E k, n \in 1..Len(calls) :
          /\ calls[k].run = runs /\ calls[k].cmd = "validation"
          /\ calls[k].parent \in RecordedIds(atStart.disk)
          /\ calls[n].run = runs /\ calls[n].cmd = "milestone" /\ calls[n].outcome = "ok"
          /\ calls[n].parent \in RecordedIds(atStart.disk)
    /\ calls[Len(calls)].cmd = "validation"
    /\ calls[Len(calls)].run = runs
    /\ calls[Len(calls)].parent \notin RecordedIds(atStart.disk)

(* C25: validation ids only when requested.  The checkpoint, in memory and
   on disk, keeps the withValidation of the apply command through every
   resume; a milestone has a validationId only if it is true, and when it is
   false no `validation add` call is issued. *)
HasValidationId(cp) ==
    \E i \in 1..Len(cp.applied.phases) :
        \E j \in 1..Len(cp.applied.phases[i].milestones) :
            cp.applied.phases[i].milestones[j].validationId # NoId

C25_ValidationOnlyWhenRequested ==
    [](
        runs >= 1 =>
            /\ disk # NoFile => disk.withValidation = args.withValidation
            /\ checkpoint # NoCheckpoint => checkpoint.withValidation = args.withValidation
            /\ ~args.withValidation =>
                  /\ ~HasValidationId(disk)
                  /\ ~HasValidationId(checkpoint)
                  /\ \A k \in 1..Len(calls) : calls[k].cmd # "validation"
    )

C25_Witness ==
    /\ runs >= 2
    /\ ~args.withValidation
    /\ Idle
    /\ disk.status = "completed"
    /\ Len(CreationsOfRun(runs)) >= 1
    /\ \E i \in 1..Len(disk.applied.phases) : Len(disk.applied.phases[i].milestones) >= 1
    /\ \E i \in 1..Len(atStart.disk.applied.phases) :
          Len(atStart.disk.applied.phases[i].milestones) >= 1

(* C26: epic id before phases.  Every checkpoint state that apply or resume
   holds or writes has an epic id when it has phases, and a resume of a file
   that has phases but no epic id fails without any external call, the
   health check included, and leaves the file as it is. *)
EpicIdBeforePhases(cp) == cp.applied.phases # <<>> => cp.applied.epicId # NoId

C26_EpicIdBeforePhases ==
    /\ [](EpicIdBeforePhases(checkpoint))
    /\ [][(pc # "idle" /\ disk' # disk) => EpicIdBeforePhases(disk')]_vars
    /\ []((runs >= 2 /\ ~EpicIdBeforePhases(atStart.disk)) =>
            /\ Idle
            /\ result.kind = "thrown"
            /\ result.run = runs
            /\ Len(calls) = atStart.calls
            /\ disk = atStart.disk)

C26_Witness ==
    /\ runs >= 2
    /\ ~EpicIdBeforePhases(atStart.disk)
    /\ Len(atStart.disk.applied.phases[1].milestones) >= 1
    /\ result.kind = "thrown"
    /\ result.run = runs
    /\ result.message = "Checkpoint is inconsistent: phases exist but epic id is missing"

(* C27: reviewer override on resume.  When a resume is given a reviewer that
   differs from the one of the checkpoint it loads, every `validation add`
   call of that resume uses the new reviewer, no call of the resume is for a
   milestone whose validationId the loaded checkpoint records, and every
   validationId the loaded checkpoint records stays as it is, in memory and
   in the file. *)
ReviewerOverridden ==
    /\ Resumed
    /\ checkpoint.reviewer # atStart.disk.reviewer

ValidatedAtStart ==
    {<<i, j>> \in (1..Len(atStart.disk.applied.phases)) \X (1..2) :
        /\ j <= Len(atStart.disk.applied.phases[i].milestones)
        /\ atStart.disk.applied.phases[i].milestones[j].validationId # NoId}

C27_ReviewerOverride ==
    [](
        ReviewerOverridden =>
            /\ \A k \in 1..Len(calls) :
                  (calls[k].run = runs /\ calls[k].cmd = "validation") =>
                      /\ calls[k].reviewer = checkpoint.reviewer
                      /\ <<calls[k].phase, calls[k].milestone>> \notin ValidatedAtStart
            /\ \A k \in 1..Len(calls) :
                  (calls[k].run = runs /\ calls[k].cmd = "milestone") =>
                      <<calls[k].phase, calls[k].milestone>> \notin ValidatedAtStart
            /\ \A x \in ValidatedAtStart :
                  \A cp \in {checkpoint, disk} :
                      cp.applied.phases[x[1]].milestones[x[2]].validationId
                          = atStart.disk.applied.phases[x[1]].milestones[x[2]].validationId
    )

C27_Witness ==
    /\ ReviewerOverridden
    /\ ValidatedAtStart # {}
    /\ checkpoint.reviewer = "alice"
    /\ disk.reviewer = "alice"
    /\ \E k \in 1..Len(calls) :
          /\ calls[k].run = runs /\ calls[k].cmd = "validation" /\ calls[k].outcome = "ok"
          /\ calls[k].reviewer = "alice"
    /\ \E k \in 1..Len(calls) : calls[k].cmd = "validation" /\ calls[k].reviewer = "reviewer"

(* The step in which apply issues `epic new`. *)
ApplyIssuesEpic ==
    /\ runs = 1
    /\ Len(calls') = Len(calls) + 1
    /\ calls'[Len(calls')].cmd = "epic"

EmptyRecord(file) ==
    /\ file.applied.epicId = NoId
    /\ file.applied.phases = <<>>

RecordBeforeEpicCall ==
    ApplyIssuesEpic =>
        /\ disk.status = "in-progress"
        /\ EmptyRecord(disk)

(* The apply has ended on a failed `epic new`. *)
ApplyEpicFailed ==
    /\ runs = 1
    /\ pc = "idle"
    /\ calls # <<>>
    /\ calls[Len(calls)].cmd = "epic"
    /\ calls[Len(calls)].outcome # "ok"

(* C29 as stated: whenever apply issues `epic new`, a checkpoint file with
   status in-progress, no epic id and no phases has already been written; if
   that epic call fails, the file ends with status failed, the failure
   message in error, no epic id and zero phases. *)
C29_RecordEndsFailed ==
    /\ [][RecordBeforeEpicCall]_vars
    /\ [](ApplyEpicFailed =>
            /\ disk.status = "failed"
            /\ disk.error = result.message
            /\ EmptyRecord(disk))

(* C29: durable record before the epic call.  Whenever apply issues
   `epic new`, a checkpoint file with status in-progress, no epic id and no
   phases has already been written; if that epic call fails, the file has no
   epic id and zero phases, and it ends with status failed and the failure
   message in error when the write of the failed status succeeds, and stays
   in-progress without an error when that write fails. *)
C29_DurableRecordBeforeEpic ==
    /\ [][RecordBeforeEpicCall]_vars
    /\ [](ApplyEpicFailed =>
            /\ EmptyRecord(disk)
            /\ result.kind = "thrown"
            /\ checkpoint.status = "failed"
            /\ checkpoint.error = result.message
            /\ IF saveFailures = atStart.saveFailures
               THEN disk.status = "failed" /\ disk.error = result.message
               ELSE disk.status = "in-progress" /\ disk.error = NoError)

C29_Witness ==
    /\ ApplyEpicFailed
    /\ disk.status = "failed"
    /\ disk.error = FailureMessage("epic", "error")
    /\ EmptyRecord(disk)
    /\ Len(calls) = 2

(* The writes of saveApplyCheckpointOrThrow that follow a creation call, and
   the writes of the final status. *)
MidRunSaves ==
    {"a_epic_save", "a_phase_save", "a_milestone_save",
     "r_epic_save", "r_phase_save", "r_milestone_save", "r_validation_save"}

FinalSaves == {"a_final", "r_final"}

LastCallCreated ==
    /\ calls # <<>>
    /\ calls[Len(calls)].run = runs
    /\ calls[Len(calls)].outcome = "ok"
    /\ calls[Len(calls)].cmd # "doctor"

WriteFails == saveFailures' > saveFailures

(* C30: a checkpoint write failure is fatal mid-run.  When a checkpoint write
   that follows a successful creation call fails during apply or resume, the
   run issues no further external call, ends failed, and raises the write
   error; a failed write of the final status is passed over: after the last
   creation the run still returns its result, and after a failed call the
   run raises that call's error and the file stays as it was. *)
C30_WriteFailureFatal ==
    /\ [][(pc \in MidRunSaves /\ LastCallCreated /\ WriteFails) =>
            /\ pc' = "idle"
            /\ calls' = calls
            /\ checkpoint'.status = "failed"
            /\ checkpoint'.error = WriteFailedMessage
            /\ result'.kind = "thrown"
            /\ result'.run = runs
            /\ result'.message = WriteFailedMessage]_vars
    /\ [][(pc \in FinalSaves /\ WriteFails) =>
            /\ pc' = "idle"
            /\ calls' = calls
            /\ checkpoint'.status = "completed"
            /\ result'.kind = "returned"
            /\ result'.run = runs
            /\ disk' = disk]_vars
    /\ [][(callFailures' > callFailures /\ Len(calls') > Len(calls)
           /\ calls'[Len(calls')].cmd # "doctor" /\ WriteFails) =>
            /\ pc' = "idle"
            /\ checkpoint'.status = "failed"
            /\ result'.kind = "thrown"
            /\ result'.message = FailureMessage(calls'[Len(calls')].cmd,
                                                calls'[Len(calls')].outcome)
            /\ disk' = disk]_vars

C30_Witness ==
    /\ runs = 2
    /\ pc = "idle"
    /\ LastCallCreated
    /\ calls[Len(calls)].cmd = "milestone"
    /\ result.kind = "thrown"
    /\ result.run = runs
    /\ result.message = WriteFailedMessage
    /\ result.recovery # NoResult
    /\ checkpoint.status = "failed"
    /\ disk.status = "failed"
    /\ saveFailures > atStart.saveFailures

(* The checkpoint records the whole plan: an epic id, every phase, every
   milestone, and a validationId per milestone when it asks for validation. *)
RecordsWholePlan(cp, p) ==
    /\ cp.applied.epicId # NoId
    /\ Len(cp.applied.phases) = Len(p.phases)
    /\ \A i \in 1..Len(p.phases) :
          /\ cp.applied.phases[i].id # NoId
          /\ Len(cp.applied.phases[i].milestones) = Len(p.phases[i].milestones)
          /\ \A j \in 1..Len(p.phases[i].milestones) :
                /\ cp.applied.phases[i].milestones[j].id # NoId
                /\ cp.withValidation =>
                      cp.applied.phases[i].milestones[j].validationId # NoId

(* C31: completed means complete.  Whenever apply or resume writes a
   checkpoint with status completed, in memory or to the file, it records an
   epic id, every phase of the run's plan, every milestone of every phase
   and, when withValidation is true, a validationId for every milestone. *)
C31_CompletedMeansComplete ==
    /\ [][(disk' # disk /\ disk'.status = "completed") =>
             RecordsWholePlan(disk', plan)]_vars
    /\ [][(checkpoint' # checkpoint /\ checkpoint'.status = "completed") =>
             RecordsWholePlan(checkpoint', plan)]_vars

C31_Witness ==
    /\ runs = 2
    /\ pc = "idle"
    /\ Len(calls) > atStart.calls
    /\ disk.status = "completed"
    /\ disk.withValidation
    /\ Len(plan.phases) = 1
    /\ Len(plan.phases[1].milestones) = 2
    /\ RecordsWholePlan(disk, plan)

ErrorTracksStatus(cp) ==
    /\ cp.status = "failed" => cp.error # NoError
    /\ cp.status \in {"in-progress", "completed"} => cp.error = NoError

(* The step in which a resume issues a creation call. *)
ResumeIssuesCreation ==
    /\ runs >= 2
    /\ Len(calls') = Len(calls) + 1
    /\ calls'[Len(calls')].cmd # "doctor"

(* C32: the error field tracks the status.  Every checkpoint state that apply
   or resume holds or writes has an error exactly when its status is failed:
   in-progress and completed states carry none; and whenever a resume issues
   a creation call, the file is in-progress and carries no error. *)
C32_ErrorTracksStatus ==
    /\ [](ErrorTracksStatus(checkpoint))
    /\ [](disk # NoFile => ErrorTracksStatus(disk))
    /\ [][ResumeIssuesCreation =>
            /\ disk.status = "in-progress"
            /\ disk.error = NoError]_vars

C32_Witness ==
    /\ runs = 2
    /\ pc # "idle"
    /\ atStart.disk.status = "failed"
    /\ atStart.disk.error # NoError
    /\ disk.status = "in-progress"
    /\ disk.error = NoError
    /\ Len(calls) > atStart.calls + 1
    /\ calls[Len(calls)].cmd # "doctor"

(* The apply has returned: status completed in memory and in the file, and
   its creation calls are the plan's entities, each once, in plan order. *)
AppliedWholePlan ==
    /\ pc = "idle"
    /\ runs = 1
    /\ result.kind = "returned"
    /\ checkpoint.status = "completed"
    /\ disk.status = "completed"
    /\ RunKeys(1) = PlanOrder(plan, args.withValidation)
    /\ \A cmd \in {"epic", "phase", "milestone", "validation"} :
          Count(1, cmd) = Len(SelectSeq(PlanOrder(plan, args.withValidation),
                                        LAMBDA e : e[1] = cmd))
    /\ plan.phases = <<>> => Len(CreationsOfRun(1)) = 1

(* C33: a successful apply runs to completion.  When every external call and
   every checkpoint write succeeds, a started apply terminates, and it ends
   with status completed after exactly one creation call per plan entity (one
   epic new, one phase add per phase, one milestone add per milestone and,
   with validation, one validation add per milestone) and no other creation
   call; a plan without phases yields exactly the epic call. *)
C33_SuccessfulApplyCompletes ==
    /\ [](runs = 1 => <>AppliedWholePlan)
    /\ []((runs = 1 /\ pc = "idle") => AppliedWholePlan)

C33_Witness ==
    /\ AppliedWholePlan
    /\ args.withValidation
    /\ Len(plan.phases) = 2
    /\ Len(plan.phases[1].milestones) = 1
    /\ Len(CreationsOfRun(1)) = 7

(* C34: bounded attempts.  For every sequence of attempt outcomes (success,
   timeout, error exit, transport failure, malformed output), one call of
   runGrnswJson terminates with a result or an error, after at least one and
   at most retries + 1 invocations of the external command, none of them
   after it has ended. *)
C34_BoundedAttempts ==
    /\ <>(response # Pending)
    /\ [](Len(invocations) <= options.retries + 1)
    /\ [](response # Pending =>
            /\ response.kind \in {"returned", "thrown"}
            /\ Len(invocations) >= 1
            /\ Len(invocations) = response.attempt)
    /\ [][response # Pending => invocations' = invocations]_vars

C34_Witness ==
    /\ response # Pending
    /\ response.kind = "thrown"
    /\ options.retries = MaxRetries
    /\ Len(invocations) = MaxRetries + 1
    /\ invocations[1] = ExecRaised
    /\ invocations[Len(invocations)] # ExecRaised

----------------------------------------------------------------------------
(* What a file, a directory and a listing say *)

NonEmptyString(value) == value.type = "string" /\ value.text # ""

IsRecord(type) == type = "object"

WellFormedMilestone(milestone) ==
    IsRecord(milestone.type) /\ NonEmptyString(milestone.title) /\ NonEmptyString(milestone.id)

WellFormedPhase(phase) ==
    /\ IsRecord(phase.type)
    /\ NonEmptyString(phase.title)
    /\ NonEmptyString(phase.id)
    /\ phase.milestones.type = "array"
    /\ \A j \in 1..Len(phase.milestones.items) : WellFormedMilestone(phase.milestones.items[j])

(* The conditions of a strict load on the content of a file. *)
StrictConditions(raw) ==
    /\ raw.version.type = "number" /\ Tenths(raw.version.text) = 10
    /\ raw.status.type = "string"
    /\ raw.status.text \in {"in-progress", "failed", "completed"}
    /\ \A f \in {"specPath", "epicTitle", "reviewer", "createdAt", "updatedAt"} :
          NonEmptyString(raw[f])
    /\ raw.priority.type = "number"
    /\ Tenths(raw.priority.text) \in {0, 10, 20, 30, 40}
    /\ raw.withValidation.type = "boolean"
    /\ raw.applied.phases.type = "array"
    /\ \A i \in 1..Len(raw.applied.phases.items) : WellFormedPhase(raw.applied.phases.items[i])
    /\ Len(raw.applied.phases.items) > 0 => NonEmptyString(raw.applied.epicId)

(* C21: strict load.  loadApplyCheckpoint returns a checkpoint only for a
   file that fulfils every condition of the schema (version 1, a known
   status, non-empty specPath, epicTitle, reviewer, createdAt and updatedAt,
   an integer priority in 0..4, a boolean withValidation, arrays of phases
   and milestones with non-empty title and id, an epic id when there are
   phases); for any other file it raises an error and yields no checkpoint,
   and a checkpoint it returns has every field filled from the file. *)
C21_StrictLoad ==
    loadResult # Pending =>
        LET raw == dir[loadResult.file].content IN
        /\ loadResult.kind \in {"returned", "thrown"}
        /\ loadResult.kind = "returned" => StrictConditions(raw)
        /\ loadResult.kind = "thrown" =>
              (loadResult.checkpoint = NoLoadedCheckpoint /\ loadResult.message # "")
        /\ loadResult.kind = "returned" =>
              /\ loadResult.checkpoint.status = raw.status.text
              /\ loadResult.checkpoint.priority * 10 = Tenths(raw.priority.text)
              /\ loadResult.checkpoint.withValidation = (raw.withValidation.text = "true")
              /\ \A f \in {"specPath", "epicTitle", "reviewer", "createdAt", "updatedAt"} :
                    loadResult.checkpoint[f] = raw[f].text
              /\ Len(loadResult.checkpoint.applied.phases) = Len(raw.applied.phases.items)
              /\ \A i \in 1..Len(raw.applied.phases.items) :
                    /\ loadResult.checkpoint.applied.phases[i].id
                          = raw.applied.phases.items[i].id.text
                    /\ Len(loadResult.checkpoint.applied.phases[i].milestones)
                          = Len(raw.applied.phases.items[i].milestones.items)

C21_Witness ==
    /\ loadResult # Pending
    /\ loadResult.kind = "returned"
    /\ Len(loadResult.checkpoint.applied.phases) = 2
    /\ Len(loadResult.checkpoint.applied.phases[1].milestones) = 1
    /\ loadResult.checkpoint.priority = 4

(* A name that the pattern *.json matches. *)
MatchesJsonPattern(fileName) == fileName \in {"a.json", "b.json", "sub.json", "gone.json"}

RegularJsonFiles ==
    {i \in 1..Len(dir) : dir[i].kind = "file" /\ MatchesJsonPattern(dir[i].fileName)}

(* The status a listing has to show for a file. *)
ListedStatus(file) ==
    IF loadApplyCheckpointFile(file).kind = "thrown" THEN "invalid" ELSE file.status.text

(* C22: checkpoint listing.  listApplyCheckpoints returns exactly one entry
   for every regular *.json file of the directory, every entry is for a
   regular file of the directory and carries that file's modification time,
   the status is invalid for a file that load rejects and the status stored
   in the file otherwise, and the entries are ordered by modification time,
   newest first. *)
C22_CheckpointListing ==
    entries # Pending =>
        LET es == entries.value IN
        /\ \A i \in RegularJsonFiles :
              Cardinality({k \in 1..Len(es) : es[k].fileName = dir[i].fileName}) = 1
        /\ \A k \in 1..Len(es) :
              \E i \in 1..Len(dir) :
                  /\ dir[i].kind = "file"
                  /\ dir[i].fileName = es[k].fileName
                  /\ dir[i].mtimeMs = es[k].mtimeMs
                  /\ es[k].status = ListedStatus(dir[i].content)
        /\ \A k, l \in 1..Len(es) : k < l => es[k].mtimeMs >= es[l].mtimeMs

C22_Witness ==
    /\ entries # Pending
    /\ Len(entries.value) >= 3
    /\ entries.value[1].fileName = "b.json"
    /\ entries.value[1].status = "invalid"
    /\ entries.value[1].mtimeMs > entries.value[2].mtimeMs
    /\ \E k \in 1..Len(entries.value) : entries.value[k].status = "completed"
    /\ \E k \in 1..Len(entries.value) : entries.value[k].status = "in-progress"

(* The files of the directory that a listing shows as failed or in-progress. *)
ResumableFiles ==
    {i \in 1..Len(dir) :
        IsListed(dir[i]) /\ ListedStatus(dir[i].content) \in {"failed", "in-progress"}}

(* C23: latest resumable.  With no checkpoint path given,
   resolveResumeCheckpointPath returns the path of a failed or in-progress
   checkpoint that no other failed or in-progress checkpoint is newer than,
   whatever completed and invalid checkpoints the directory holds, and
   raises an error when the directory has no failed or in-progress
   checkpoint. *)
C23_LatestResumable ==
    (resolved # Pending /\ resolved.inputPath \in {Undefined, " "}) =>
        IF ResumableFiles = {}
        THEN resolved.kind = "thrown" /\ resolved.path = Undefined
        ELSE /\ resolved.kind = "returned"
             /\ \E i \in ResumableFiles :
                   /\ resolved.path = dir[i].fileName
                   /\ \A k \in ResumableFiles : dir[i].mtimeMs >= dir[k].mtimeMs

C23_Witness ==
    /\ resolved # Pending
    /\ resolved.inputPath = Undefined
    /\ resolved.kind = "returned"
    /\ resolved.path = "b.json"
    /\ \E i, k \in 1..Len(dir) :
          /\ dir[i].fileName = "a.json" /\ ListedStatus(dir[i].content) = "completed"
          /\ dir[k].fileName = "b.json" /\ dir[i].mtimeMs > dir[k].mtimeMs
    /\ \E i \in 1..Len(dir) :
          dir[i].fileName = "C.JSON" /\ ListedStatus(dir[i].content) = "completed"

----------------------------------------------------------------------------
(* What the argument list decides *)

KnownOptions == {"--apply", "--with-validation", "--reviewer", "--priority", "--help", "-h"}

TakesValue(token) == token \in {"--reviewer", "--priority"}

(* The tokens that are neither an option nor the value of one. *)
PositionalPaths(toks) ==
    {i \in 1..Len(toks) :
        /\ ~StartsWithDash(toks[i])
        /\ ~(i > 1 /\ TakesValue(toks[i - 1]))}

Malformed(toks) ==
    \/ \E i \in 1..Len(toks) : StartsWithDash(toks[i]) /\ toks[i] \notin KnownOptions
    \/ \E i \in 1..Len(toks) :
          /\ TakesValue(toks[i])
          /\ (i = Len(toks) \/ StartsWithDash(toks[i + 1]))
    \/ \E i \in 1..(Len(toks) - 1) :
          toks[i] = "--priority" /\ ~IsPriorityDigit(toks[i + 1])
    \/ Cardinality(PositionalPaths(toks)) > 1

NoInputOutput ==
    /\ plan = NoPlan
    /\ disk = NoFile
    /\ checkpoint = NoCheckpoint
    /\ calls = <<>>
    /\ runs = 0

(* C28: argument errors fail before any I/O.  For the apply command, a
   malformed argument list (an unknown option, --reviewer or --priority
   without a value or followed by a flag, a priority that is not a single
   digit 0-4, more than one positional path) is rejected: the handler ends
   with the error, and no spec file is read, no checkpoint written and no
   external command invoked. *)
C28_ArgumentErrorsBeforeIO ==
    Malformed(tokens) =>
        /\ NoInputOutput
        /\ result # NoResult => result.kind = "error"

----------------------------------------------------------------------------
(* What the document says and what the plan holds *)

IsPhaseLine(line) ==
    /\ parseHeading(line) # NoHeading
    /\ isPhaseHeading(parseHeading(line).title)

IsMilestoneLine(line) ==
    /\ ~IsPhaseLine(line)
    /\ \/ parseHeading(line) # NoHeading /\ isMilestoneHeading(parseHeading(line).title)
       \/ parseMilestoneBullet(line) # NoBullet

MilestoneTitle(line) ==
    IF parseHeading(line) # NoHeading THEN parseHeading(line).title
    ELSE parseMilestoneBullet(line)

LineNumbers(lines) == [i \in 1..Len(lines) |-> i]

PhaseLines(lines) == SelectSeq(LineNumbers(lines), LAMBDA i : IsPhaseLine(lines[i]))

(* The titles of the milestone lines strictly between lines a and b. *)
MilestonesBetween(lines, a, b) ==
    LET at == SelectSeq(LineNumbers(lines),
                        LAMBDA i : a < i /\ i < b /\ IsMilestoneLine(lines[i])) IN
    [n \in 1..Len(at) |-> MilestoneTitle(lines[at[n]])]

(* The phases the document describes: a phase per phase heading, with the
   milestones up to the next phase heading, and before them the phase of the
   milestones that precede every phase heading, if there are any. *)
DocumentPhases(lines) ==
    LET at == PhaseLines(lines)
        first == IF at = <<>> THEN Len(lines) + 1 ELSE at[1]
        unsorted == MilestonesBetween(lines, 0, first) IN
    (IF unsorted = <<>> THEN <<>>
     ELSE <<[title |-> "Phase: Unsorted", milestones |-> unsorted]>>)
    \o [n \in 1..Len(at) |->
          [title |-> parseHeading(lines[at[n]]).title,
           milestones |-> MilestonesBetween(lines, at[n],
                              IF n < Len(at) THEN at[n + 1] ELSE Len(lines) + 1)]]

PlanTitles(p) ==
    [i \in 1..Len(p.phases) |->
        [title |-> p.phases[i].title,
         milestones |-> [j \in 1..Len(p.phases[i].milestones) |->
                            p.phases[i].milestones[j].title]]]

(* C35: no milestone is dropped by parsing.  Every milestone heading and
   every milestone bullet of the document yields exactly one milestone of the
   plan, in document order, under the most recent preceding phase heading; a
   milestone before any phase heading is under the synthetic phase
   'Phase: Unsorted', which is created once and is the first phase. *)
C35_NoMilestoneDropped ==
    parsedPlan # Pending =>
        PlanTitles(parsedPlan) = DocumentPhases(specFile.lines)

C35_Witness ==
    /\ parsedPlan # Pending
    /\ specFile.lines = <<"- [ ] M2 Docs", "### Milestone 1: API", "## Phase 1: Core",
                          "- [ ] M2 Docs">>
    /\ Len(parsedPlan.phases) = 2
    /\ parsedPlan.phases[1].title = "Phase: Unsorted"
    /\ Len(parsedPlan.phases[1].milestones) = 2
    /\ parsedPlan.phases[2].milestones[1].title = "M2 Docs"

(* The level-1 headings of the document outside the structural list. *)
EpicHeadings(lines) ==
    {i \in 1..Len(lines) :
        /\ parseHeading(lines[i]).level = 1
        /\ normalizeSpecHeading(parseHeading(lines[i]).title) \notin STRUCTURAL_SPEC_HEADINGS}

(* C36: epic title selection.  The plan's epicTitle is the title of the first
   level-1 heading of the document that is not in the structural list, later
   level-1 headings never replace it, and a document without such a heading
   gets the title derived from the file name. *)
C36_EpicTitleSelection ==
    parsedPlan # Pending =>
        LET at == EpicHeadings(specFile.lines) IN
        IF at = {}
        THEN parsedPlan.epicTitle = deriveFallbackEpicTitle(specFile.path)
        ELSE \E i \in at :
                /\ \A k \in at : i <= k
                /\ parsedPlan.epicTitle = parseHeading(specFile.lines[i]).title

C36_Witness ==
    /\ parsedPlan # Pending
    /\ specFile.lines = <<"# **Testing Plan:**", "# Rollout ", "# Billing">>
    /\ parsedPlan.epicTitle = "Rollout"

(* The milestone lines of the document, in order, and the lines that belong
   to the milestone of line i: those after it and before the next phase
   heading, milestone heading or milestone bullet. *)
MilestoneLines(lines) ==
    SelectSeq(LineNumbers(lines), LAMBDA i : IsMilestoneLine(lines[i]))

OwnLines(lines, i) ==
    LET later == {k \in (i + 1)..Len(lines) :
                     IsPhaseLine(lines[k]) \/ IsMilestoneLine(lines[k])}
        stop == IF later = {} THEN Len(lines) + 1
                ELSE CHOOSE k \in later : \A m \in later : k <= m IN
    SubSeq(lines, i + 1, stop - 1)

(* The acceptance texts that can be extracted from the lines of a milestone,
   read up to any point. *)
OwnAcceptances(lines, i) ==
    LET own == OwnLines(lines, i) IN
    {NoAcceptance}
    \cup {extractAcceptanceCriteria(SubSeq(own, 1, k)) : k \in 0..Len(own)}

PlanMilestones(p) ==
    Flatten([n \in 1..Len(p.phases) |-> p.phases[n].milestones])

(* C37: acceptance text stays with its milestone.  The acceptance text of a
   milestone is extracted only from the lines between the milestone's own
   line and the next phase heading, milestone heading or milestone bullet;
   text after a later phase heading, of any level, never becomes the
   acceptance of a milestone of an earlier phase. *)
C37_AcceptanceStaysWithMilestone ==
    parsedPlan # Pending =>
        LET at == MilestoneLines(specFile.lines)
            milestones == PlanMilestones(parsedPlan) IN
        /\ Len(milestones) = Len(at)
        /\ \A n \in 1..Len(at) :
              milestones[n].acceptance \in OwnAcceptances(specFile.lines, at[n])

====
